---- MODULE Spec2Model ----
(***************************************************************************)
(* Model of the task-based model routing core of openclaw:                 *)
(*   - the model catalog cache (loadModelCatalog), specification Spec;     *)
(*   - the task router (TaskBasedModelRouter.selectModelForTask,           *)
(*     routeModelForTask, generateFallbackList) with the classifier and    *)
(*     the scorer it calls, specification RouterSpec;                      *)
(*   - the scorer's and the classifier's exported functions called on      *)
(*     their own, specifications ScorerSpec and ClassifierSpec;            *)
(*   - the routing metrics and their process-wide accessor, specification  *)
(*     MetricsSpec.                                                        *)
(* Strings are TLA+ strings; toLowerCase, trim and localeCompare are       *)
(* tabulated over the strings the model uses.  Scores are exact rationals  *)
(* kept as integer numerators over a common denominator.                   *)
(***************************************************************************)
EXTENDS Integers, Sequences, FiniteSets, TLC

VARIABLES
  modelCatalogPromise,        \* 0 (null) or the id of the cached promise
  hasLoggedModelCatalogError, \* the log-once flag
  promise,                    \* promise id -> state of that load
  calls,                      \* the loadModelCatalog calls issued so far
  lastSuccess,                \* history: the newest discovery, once it succeeded non-empty; 0 after a bypass call
  router,                     \* the router under test: its config and catalog
  pc,                         \* "idle" or "returned": position of the router's caller
  call,                       \* the operation and arguments of the last router call
  result,                     \* what that call returned
  metrics,                    \* instance id -> the counters of that routing-metrics instance
  globalMetrics,              \* 0 (null) or the id of the process-wide instance
  recorded,                   \* history: instance id -> the record calls since construction or reset()
  issued                      \* history: the instance the accessor last handed out since the last global reset, or 0

catalogVars == <<modelCatalogPromise, hasLoggedModelCatalogError, promise, calls, lastSuccess>>
routerVars == <<router, pc, call, result>>
metricsVars == <<metrics, globalMetrics, recorded, issued>>
vars == <<modelCatalogPromise, hasLoggedModelCatalogError, promise, calls, lastSuccess,
          router, pc, call, result, metrics, globalMetrics, recorded, issued>>

(***************************************************************************)
(* Bounds of the model.                                                    *)
(***************************************************************************)
MaxCalls == 3
MaxRegistry == 3
\* The record calls made on the metrics instances in one behaviour.
MaxRecords == 4

NoPromise == 0

(***************************************************************************)
(* String helpers, tabulated over the strings of the model.                *)
(***************************************************************************)
Trim(s) ==
  CASE s = " " -> ""
    [] s = " m1 " -> "m1"
    [] OTHER -> s

\* String.prototype.localeCompare on the names of the model: the sign of the
\* difference of the collation ranks.
CollationRank(s) ==
  CASE s = "" -> 0
    [] s = "anthropic" -> 1
    [] s = "Claude" -> 2
    [] s = "Llama" -> 3
    [] s = "m1" -> 4
    [] s = "ollama" -> 5
    [] OTHER -> 6

localeCompare(a, b) == CollationRank(a) - CollationRank(b)

(***************************************************************************)
(* The discovered models the registry may hand back.  An entry whose       *)
(* throws flag is set raises when its fields are read.                      *)
(***************************************************************************)
RawEntries ==
  { [id |-> "m1",  name |-> "Llama",  provider |-> "ollama",    contextWindow |-> 8192, throws |-> FALSE],
    [id |-> " m1 ", name |-> "Claude", provider |-> "anthropic", contextWindow |-> 0 - 1, throws |-> FALSE],
    [id |-> " ",   name |-> "Llama",  provider |-> "ollama",    contextWindow |-> 0,    throws |-> FALSE],
    [id |-> "m1",  name |-> "",       provider |-> "ollama",    contextWindow |-> 0,    throws |-> TRUE] }

RECURSIVE SeqsUpTo(_, _)
SeqsUpTo(S, n) ==
  IF n = 0 THEN {<<>>}
  ELSE LET shorter == SeqsUpTo(S, n - 1)
       IN shorter \cup {Append(q, e) : q \in {r \in shorter : Len(r) = n - 1}, e \in S}

Registries == SeqsUpTo(RawEntries, MaxRegistry)

\* One pass of the for loop body: what it pushes onto models, nothing when id
\* or provider is blank.
NormalizeEntry(entry) ==
  LET id == Trim(entry.id)
      provider == Trim(entry.provider)
      trimmedName == Trim(entry.name)
      name == IF trimmedName = "" THEN id ELSE trimmedName
      contextWindow == IF entry.contextWindow > 0 THEN entry.contextWindow ELSE 0
  IN IF id = "" \/ provider = ""
     THEN <<>>
     ELSE <<[id |-> id, name |-> name, provider |-> provider, contextWindow |-> contextWindow]>>

\* The for loop over the registry's entries: the models pushed, and whether
\* reading an entry threw (the loop stops there).
RECURSIVE LoopEntries(_, _)
LoopEntries(entries, models) ==
  IF entries = <<>> THEN [models |-> models, threw |-> FALSE]
  ELSE IF Head(entries).throws THEN [models |-> models, threw |-> TRUE]
  ELSE LoopEntries(Tail(entries), models \o NormalizeEntry(Head(entries)))

\* The comparator of sortModels: provider, then name.
CompareModels(a, b) ==
  LET p == localeCompare(a.provider, b.provider)
  IN IF p # 0 THEN p ELSE localeCompare(a.name, b.name)

RECURSIVE InsertSorted(_, _)
InsertSorted(sorted, e) ==
  IF sorted = <<>> THEN <<e>>
  ELSE IF CompareModels(Head(sorted), e) <= 0
       THEN <<Head(sorted)>> \o InsertSorted(Tail(sorted), e)
       ELSE <<e>> \o sorted

\* Array.prototype.sort with that comparator (stable).
RECURSIVE sortModels(_)
sortModels(entries) ==
  IF entries = <<>> THEN <<>>
  ELSE InsertSorted(sortModels(SubSeq(entries, 1, Len(entries) - 1)), entries[Len(entries)])

(***************************************************************************)
(* loadModelCatalog.                                                       *)
(***************************************************************************)
Unused == [state |-> "none", at |-> "none", value |-> <<>>, threw |-> FALSE, pushed |-> <<>>]

Pending(p) == promise[p].state = "pending"
Settled(p) == promise[p].state \in {"fulfilled", "rejected"}

\* What the catch block makes of the load: the promise's final state.  pushed
\* keeps the models array as it was when the error was caught.
CatchMutantRethrow(models) ==
  [state |-> "rejected", at |-> "done", value |-> <<>>, threw |-> TRUE, pushed |-> models]

CatchMutantEmpty(models) ==
  [state |-> "fulfilled", at |-> "done", value |-> <<>>, threw |-> TRUE, pushed |-> models]

CatchResult(models) ==
  [state |-> "fulfilled", at |-> "done",
   value |-> IF Len(models) > 0 THEN sortModels(models) ELSE <<>>,
   threw |-> TRUE, pushed |-> models]

\* The discovery started last.
NewestDiscovery ==
  LET started == {i \in 1..Len(calls) : calls[i].started}
  IN IF started = {} THEN NoPromise ELSE CHOOSE i \in started : \A j \in started : j <= i

\* The promise a call returns without starting discovery, NoPromise when it
\* has to start one.
CacheLookupMutantNoReuse(useCache, cached) == NoPromise

CacheLookup(useCache, cached) ==
  LET afterBypass == IF useCache = FALSE THEN NoPromise ELSE cached
  IN afterBypass

\* loadModelCatalog({config, useCache}): the whole synchronous part of a call.
\* configThrows: no config was passed and loadConfig() raises.
loadModelCatalog(useCache, configThrows) ==
  /\ Len(calls) < MaxCalls
  /\ LET id == Len(calls) + 1
         hit == CacheLookup(useCache, modelCatalogPromise)
     IN IF hit # NoPromise
        THEN /\ calls' = Append(calls, [useCache |-> useCache, got |-> hit, started |-> FALSE])
             /\ UNCHANGED <<modelCatalogPromise, hasLoggedModelCatalogError, promise, lastSuccess>>
        ELSE /\ calls' = Append(calls, [useCache |-> useCache, got |-> id, started |-> TRUE])
             /\ lastSuccess' = IF useCache = FALSE THEN NoPromise ELSE lastSuccess
             /\ modelCatalogPromise' = id
             /\ IF configThrows
                THEN /\ promise' = [promise EXCEPT ![id] = CatchResult(<<>>)]
                     /\ hasLoggedModelCatalogError' = TRUE
                ELSE /\ promise' = [promise EXCEPT ![id] =
                                      [state |-> "pending", at |-> "ensure", value |-> <<>>,
                                       threw |-> FALSE, pushed |-> <<>>]]
                     /\ UNCHANGED hasLoggedModelCatalogError
  /\ UNCHANGED <<routerVars, metricsVars>>

\* The catch block running after an await: log once, clear the cache, settle.
CatchAfterAwait(p, models) ==
  /\ hasLoggedModelCatalogError' = TRUE
  /\ modelCatalogPromise' = NoPromise
  /\ promise' = [promise EXCEPT ![p] = CatchResult(models)]
  /\ UNCHANGED <<calls, lastSuccess>>

\* The load resumes after `await ensureOpenClawModelsJson(cfg)`.
ResumeAfterEnsure(p, throws) ==
  /\ Pending(p) /\ promise[p].at = "ensure"
  /\ IF throws
     THEN CatchAfterAwait(p, <<>>)
     ELSE /\ promise' = [promise EXCEPT ![p].at = "import"]
          /\ UNCHANGED <<modelCatalogPromise, hasLoggedModelCatalogError, calls, lastSuccess>>
  /\ UNCHANGED <<routerVars, metricsVars>>

\* The load resumes after `await importPiSdk()`.
ResumeAfterImport(p, throws) ==
  /\ Pending(p) /\ promise[p].at = "import"
  /\ IF throws
     THEN CatchAfterAwait(p, <<>>)
     ELSE /\ promise' = [promise EXCEPT ![p].at = "registry"]
          /\ UNCHANGED <<modelCatalogPromise, hasLoggedModelCatalogError, calls, lastSuccess>>
  /\ UNCHANGED <<routerVars, metricsVars>>

\* The load resumes after `await import("node:path")`: it builds the registry,
\* reads its entries, and returns.  registryThrows: a constructor or getAll raises.
ReadRegistry(p, registryThrows, raw) ==
  /\ Pending(p) /\ promise[p].at = "registry"
  /\ IF registryThrows
     THEN CatchAfterAwait(p, <<>>)
     ELSE LET loop == LoopEntries(raw, <<>>)
          IN IF loop.threw
             THEN CatchAfterAwait(p, loop.models)
             ELSE /\ modelCatalogPromise' =
                       IF Len(loop.models) = 0 THEN NoPromise ELSE modelCatalogPromise
                  /\ promise' = [promise EXCEPT ![p] =
                        [state |-> "fulfilled", at |-> "done", value |-> sortModels(loop.models),
                         threw |-> FALSE, pushed |-> loop.models]]
                  /\ lastSuccess' = IF Len(loop.models) > 0 /\ p = NewestDiscovery
                                     THEN p ELSE lastSuccess
                  /\ UNCHANGED <<hasLoggedModelCatalogError, calls>>
  /\ UNCHANGED <<routerVars, metricsVars>>

CatalogInit ==
  /\ modelCatalogPromise = NoPromise
  /\ hasLoggedModelCatalogError = FALSE
  /\ promise = [p \in 1..MaxCalls |-> Unused]
  /\ calls = <<>>
  /\ lastSuccess = NoPromise

NoCall == [op |-> "none"]
NoResult == [kind |-> "none"]

(***************************************************************************)
(* Routing metrics: the counters of one instance, and the process-wide     *)
(* instance behind getGlobalRoutingMetrics.  Instances are named by ids;   *)
(* an instance that was never constructed is NoMetrics.                    *)
(***************************************************************************)
MetricsIds == {1, 2}

EmptyMap == [key \in {} |-> 0]

NoMetrics == [constructed |-> FALSE]

\* The counters of a freshly constructed instance, and after reset().
NewMetrics ==
  [constructed |-> TRUE, totalDecisions |-> 0, decisionsByTaskType |-> EmptyMap,
   decisionsByStrategy |-> EmptyMap, selectionsByProvider |-> EmptyMap,
   modelSelections |-> EmptyMap, fallbacksUsed |-> 0, overridesUsed |-> 0, errors |-> 0]

MetricTaskTypes == {"coding", "reasoning"}

\* The record calls seen by an instance: its recordDecision calls by task
\* type, and its other record calls.
NoRecords == [decisions |-> [t \in MetricTaskTypes |-> 0], others |-> 0]

MetricsIdle ==
  /\ metrics = [i \in MetricsIds |-> NoMetrics]
  /\ globalMetrics = 0
  /\ recorded = [i \in MetricsIds |-> NoRecords]
  /\ issued = 0

RouterIdle ==
  /\ router = [catalog |-> <<>>]
  /\ pc = "idle"
  /\ call = NoCall
  /\ result = NoResult
  /\ MetricsIdle

Init == CatalogInit /\ RouterIdle

Next ==
  \/ \E useCache \in BOOLEAN, configThrows \in BOOLEAN : loadModelCatalog(useCache, configThrows)
  \/ \E p \in 1..MaxCalls, throws \in BOOLEAN : ResumeAfterEnsure(p, throws)
  \/ \E p \in 1..MaxCalls, throws \in BOOLEAN : ResumeAfterImport(p, throws)
  \/ \E p \in 1..MaxCalls, throws \in BOOLEAN, raw \in Registries : ReadRegistry(p, throws, raw)

Spec == Init /\ [][Next]_vars

(***************************************************************************)
(* Claims about the model catalog cache.                                   *)
(***************************************************************************)
DiscoveriesStarted == Cardinality({i \in 1..Len(calls) : calls[i].started})

LastCall == calls[Len(calls)]

\* A loadModelCatalog call is the step taken, with or without cache bypass.
CallStep == Len(calls') = Len(calls) + 1

\* The cache holds a successfully loaded non-empty result.
Ready ==
  /\ modelCatalogPromise # NoPromise
  /\ promise[modelCatalogPromise].state = "fulfilled"
  /\ ~promise[modelCatalogPromise].threw
  /\ promise[modelCatalogPromise].value # <<>>

\* C1: when loadModelCatalog is called a second time without cache bypass
\* while the first load is still pending, no second discovery is started and
\* the second caller receives the first call's pending promise.
C1_SecondCallSharesPendingLoad ==
  [][(Len(calls) = 1 /\ Pending(calls[1].got) /\ CallStep /\ LastCall'.useCache)
       => /\ LastCall'.got = calls[1].got
          /\ ~LastCall'.started
          /\ DiscoveriesStarted' = 1
          /\ promise' = promise]_vars

C1_Witness ==
  /\ Len(calls) = 2
  /\ calls[2].useCache
  /\ calls[2].got = calls[1].got
  /\ DiscoveriesStarted = 1
  /\ Pending(calls[1].got)

\* C2: the cache never retains the outcome of a load that failed or that
\* yielded an empty list, so the next call starts discovery again.
C2_FailedOrEmptyOutcomeNotRetained ==
  modelCatalogPromise # NoPromise =>
    ~(/\ promise[modelCatalogPromise].state = "fulfilled"
      /\ (promise[modelCatalogPromise].threw \/ promise[modelCatalogPromise].value = <<>>))

\* C3: once the cache is ready it stays ready, except through a
\* loadModelCatalog call that requests cache bypass.
C3_ReadyOnlyLeftByBypass ==
  [][Ready => (Ready' \/ (CallStep /\ LastCall'.useCache = FALSE))]_vars

\* C4: after a load has succeeded with a non-empty list (no cache bypass was
\* requested since it started), every later call without cache bypass returns
\* that load's promise and starts no discovery.
C4_SuccessCachedForLaterCalls ==
  [][(CallStep /\ LastCall'.useCache /\ lastSuccess # NoPromise)
       => (LastCall'.got = lastSuccess /\ ~LastCall'.started)]_vars

Occurrences(seq, e) == Cardinality({i \in 1..Len(seq) : seq[i] = e})

IsSortedCatalog(seq) ==
  \A i \in 1..(Len(seq) - 1) : CompareModels(seq[i], seq[i + 1]) <= 0

\* C5 as stated: a load whose discovery threw is fulfilled with the empty list.
C5_ThrowYieldsEmptyList ==
  \A p \in 1..MaxCalls :
    promise[p].threw => (promise[p].state = "fulfilled" /\ promise[p].value = <<>>)

\* C5 as amended: a load whose discovery threw does not reject; it is fulfilled
\* with the entries pushed before the error, sorted, which is the empty list
\* when none was pushed.
C5_ThrowYieldsPushedEntries ==
  \A p \in 1..MaxCalls :
    promise[p].threw =>
      /\ promise[p].state = "fulfilled"
      /\ Len(promise[p].value) = Len(promise[p].pushed)
      /\ \A i \in 1..Len(promise[p].pushed) :
            Occurrences(promise[p].value, promise[p].pushed[i])
              = Occurrences(promise[p].pushed, promise[p].pushed[i])
      /\ IsSortedCatalog(promise[p].value)

C5_Witness ==
  \E p \in 1..MaxCalls :
    /\ promise[p].threw
    /\ promise[p].state = "fulfilled"
    /\ Len(promise[p].value) = 2
    /\ promise[p].value # promise[p].pushed

(***************************************************************************)
(* Task classifier.  A prompt is its lower-cased words in order plus a     *)
(* count of further characters that match no pattern; a pattern is the set *)
(* of word sequences its alternatives stand for.                            *)
(***************************************************************************)
Phrases(wordSet) == {<<w>> : w \in wordSet}

TASK_PATTERNS(taskType) ==
  CASE taskType = "coding" ->
         << Phrases({"debug", "implement", "refactor", "function", "class", "method", "variable",
                     "code", "compile", "syntax", "bug", "fix", "error", "exception"}),
            Phrases({"typescript", "javascript", "python", "rust", "go", "java", "css", "html",
                     "sql", "api", "endpoint"}),
            Phrases({"test", "integration", "mock", "stub", "coverage"}) \cup {<<"unit", "test">>},
            Phrases({"git", "commit", "merge", "branch", "pr"}) \cup {<<"pull", "request">>} >>
    [] taskType = "reasoning" ->
         << Phrases({"analyze", "prove", "deduce", "calculate", "solve", "derive", "infer",
                     "reason", "logic", "theorem"}),
            {<<"step", "by", "step">>, <<"think", "through">>, <<"work", "out">>,
             <<"figure", "out">>, <<"explain", "why">>},
            Phrases({"mathematical", "equation", "formula", "proof", "hypothesis"}),
            Phrases({"evaluate", "assess", "critique"}) \cup {<<"compare", "and", "contrast">>} >>
    [] taskType = "vision" ->
         << Phrases({"image", "photo", "picture", "screenshot", "diagram", "chart", "graph",
                     "visual", "ui", "design"}),
            Phrases({"see", "view", "show", "display", "render", "draw"}) \cup {<<"look", "at">>},
            Phrases({"ocr", "recognize", "identify", "detect", "scan"}) >>
    [] taskType = "analysis" ->
         << Phrases({"summarize", "summary", "overview", "review", "analyze", "analysis",
                     "evaluate", "assessment"}),
            Phrases({"compare", "contrast", "difference", "similarity"})
              \cup {<<"pros", "and", "cons">>},
            Phrases({"report", "findings", "conclusion", "recommendation"}),
            Phrases({"data", "metrics", "statistics", "trends", "patterns"}) >>
    [] taskType = "chat" ->
         << Phrases({"hello", "hi", "hey", "thanks", "please", "sorry"})
              \cup {<<"thank", "you">>, <<"excuse", "me">>},
            {<<"how", "are", "you">>, <<"what's", "up">>, <<"good", "morning">>,
             <<"good", "evening">>},
            Phrases({"yes", "no", "ok", "okay", "sure", "understood"}) \cup {<<"got", "it">>} >>
    [] OTHER -> <<>>

COMPLEXITY_PATTERNS_complex ==
  << Phrases({"complex", "complicated", "advanced", "sophisticated", "comprehensive", "thorough",
              "detailed"}),
     Phrases({"multiple", "several", "many", "all", "entire", "complete"}) \cup {<<"multi", "step">>},
     Phrases({"architecture", "system", "design", "refactor", "rewrite", "overhaul"}),
     Phrases({"optimize", "performance", "scale", "production", "enterprise"}) >>

COMPLEXITY_PATTERNS_simple ==
  << Phrases({"simple", "basic", "quick", "easy", "small", "minor", "trivial", "just", "only"}),
     {<<a, b>> : a \in {"one", "single", "a", "the"},
                 b \in {"function", "method", "line", "file", "change"}},
     Phrases({"typo", "rename", "format", "lint", "style"}) >>

\* RegExp.prototype.test of one pattern on the prompt.
PatternTest(pattern, prompt) ==
  \E phrase \in pattern :
    \E i \in 1..Len(prompt.words) :
      /\ i + Len(phrase) - 1 <= Len(prompt.words)
      /\ SubSeq(prompt.words, i, i + Len(phrase) - 1) = phrase

AnyPatternTest(patterns, prompt) ==
  \E k \in 1..Len(patterns) : PatternTest(patterns[k], prompt)

RECURSIVE WordsLength(_)
WordsLength(words) ==
  IF words = <<>> THEN 0
  ELSE Len(Head(words)) + (IF Len(words) > 1 THEN 1 ELSE 0) + WordsLength(Tail(words))

\* prompt.length
PromptLength(prompt) == WordsLength(prompt.words) + prompt.filler

ShortPromptLimit == 100
LongPromptLimit == 500

inferComplexity(prompt) ==
  IF AnyPatternTest(COMPLEXITY_PATTERNS_complex, prompt) THEN "complex"
  ELSE IF AnyPatternTest(COMPLEXITY_PATTERNS_simple, prompt) THEN "simple"
  ELSE IF PromptLength(prompt) < ShortPromptLimit THEN "simple"
  ELSE IF PromptLength(prompt) > LongPromptLimit THEN "complex"
  ELSE "moderate"

\* The order of the keys of the scores record.
TaskTypes == <<"coding", "reasoning", "chat", "vision", "analysis", "general">>

VisionImageBoost == 3

\* scores[taskType] after the pattern loop and the image boost.
PatternScore(taskType, prompt, hasImages) ==
  Cardinality({k \in 1..Len(TASK_PATTERNS(taskType)) : PatternTest(TASK_PATTERNS(taskType)[k], prompt)})
    + (IF taskType = "vision" /\ hasImages THEN VisionImageBoost ELSE 0)

\* The loop that finds the highest scoring task type: [maxScore, detectedType]
\* after the first k keys.
RECURSIVE DetectType(_, _, _)
DetectType(k, prompt, hasImages) ==
  IF k = 0 THEN [maxScore |-> 0, detectedType |-> "general"]
  ELSE LET before == DetectType(k - 1, prompt, hasImages)
           score == PatternScore(TaskTypes[k], prompt, hasImages)
       IN IF score > before.maxScore
          THEN [maxScore |-> score, detectedType |-> TaskTypes[k]]
          ELSE before

RECURSIVE SumScores(_, _, _)
SumScores(k, prompt, hasImages) ==
  IF k = 0 THEN 0
  ELSE PatternScore(TaskTypes[k], prompt, hasImages) + SumScores(k - 1, prompt, hasImages)

OrElseMutantIgnoresDefault(optional, default) == optional = "true"

\* An optional boolean of the hints: "unset", "true" or "false".
OrElse(optional, default) == IF optional = "unset" THEN default ELSE optional = "true"

\* classifyTask(prompt, hasImages, hints).  confidence is the fraction num/den.
classifyTask(prompt, hasImages, hints) ==
  IF hints.taskType # "unset"
  THEN [type |-> hints.taskType,
        complexity |-> IF hints.complexity # "unset" THEN hints.complexity
                       ELSE inferComplexity(prompt),
        requiresVision |-> OrElse(hints.requiresVision, hasImages),
        requiresReasoning |-> OrElse(hints.requiresReasoning, hints.taskType = "reasoning"),
        confidence |-> [num |-> 1, den |-> 1]]
  ELSE LET detected == DetectType(Len(TaskTypes), prompt, hasImages)
           totalScore == SumScores(Len(TaskTypes), prompt, hasImages)
           complexity == IF hints.complexity # "unset" THEN hints.complexity
                         ELSE inferComplexity(prompt)
       IN [type |-> detected.detectedType,
           complexity |-> complexity,
           requiresVision |-> OrElse(hints.requiresVision, hasImages),
           requiresReasoning |->
             OrElse(hints.requiresReasoning,
                    \/ detected.detectedType = "reasoning"
                    \/ complexity = "complex"
                    \/ PatternScore("reasoning", prompt, hasImages) > 1),
           confidence |->
             IF totalScore > 0
             THEN IF 10 * detected.maxScore + 3 * totalScore >= 10 * totalScore
                  THEN [num |-> 1, den |-> 1]
                  ELSE [num |-> 10 * detected.maxScore + 3 * totalScore, den |-> 10 * totalScore]
             ELSE [num |-> 1, den |-> 2]]

NoHints == [taskType |-> "unset", complexity |-> "unset", requiresVision |-> "unset",
            requiresReasoning |-> "unset"]

(***************************************************************************)
(* Capability resolver.  A catalog entry carries its declared fields;      *)
(* contextWindow 0, reasoning "unset", input "unset" and costTenths -1     *)
(* stand for an absent field, capabilities.declared for an explicit        *)
(* profile.  defect marks an entry that breaks its type: "taskTypes" is a  *)
(* declared profile without taskTypes.                                     *)
(***************************************************************************)
DEFAULT_CONTEXT_WINDOW == 8192

NoCapabilities ==
  [declared |-> FALSE, taskTypes |-> {}, maxComplexity |-> "simple", supportsVision |-> FALSE,
   supportsReasoning |-> FALSE, contextWindow |-> 0, costTier |-> "medium"]

\* The name patterns, on the names and ids of the model's catalog entries.
MODEL_VISION_PATTERNS(text) == text \in {"llava", "LLaVA 7B"}
MODEL_CODING_PATTERNS(text) == text \in {"qwen-coder-32k", "Qwen Coder"}
MODEL_REASONING_PATTERNS(text) == text \in {"deepseek-r1", "DeepSeek R1"}
\* The number in front of the first "k" of MODEL_CONTEXT_PATTERNS, 0 without a match.
MODEL_CONTEXT_PATTERNS(text) == IF text = "qwen-coder-32k" THEN 32 ELSE 0

detectModelNameCapabilities(name, id) ==
  LET parsed == IF name # "" /\ MODEL_CONTEXT_PATTERNS(name) > 0
                THEN MODEL_CONTEXT_PATTERNS(name) ELSE MODEL_CONTEXT_PATTERNS(id)
  IN [supportsVision |-> (name # "" /\ MODEL_VISION_PATTERNS(name)) \/ MODEL_VISION_PATTERNS(id),
      supportsCoding |-> (name # "" /\ MODEL_CODING_PATTERNS(name)) \/ MODEL_CODING_PATTERNS(id),
      supportsReasoning |->
        (name # "" /\ MODEL_REASONING_PATTERNS(name)) \/ MODEL_REASONING_PATTERNS(id),
      contextWindow |-> IF parsed > 0 THEN parsed * 1000 ELSE 0]

\* cost figures are summed in tenths.
inferCostTier(costTenths, fallback) ==
  IF costTenths < 0 THEN fallback
  ELSE IF costTenths = 0 THEN "free"
  ELSE IF costTenths <= 20 THEN "low"
  ELSE IF costTenths <= 100 THEN "medium"
  ELSE "high"

inferMaxComplexity(contextWindow, supportsReasoning) ==
  IF supportsReasoning \/ contextWindow >= 100000 THEN "complex"
  ELSE IF contextWindow >= 32000 THEN "moderate"
  ELSE "simple"

inferTaskTypes(supportsVision, supportsReasoning, supportsCoding, contextWindow) ==
  {"general", "chat"}
    \cup (IF supportsVision THEN {"vision"} ELSE {})
    \cup (IF supportsReasoning THEN {"reasoning"} ELSE {})
    \cup (IF supportsCoding THEN {"coding"} ELSE {})
    \cup (IF supportsReasoning \/ contextWindow >= 32000 THEN {"analysis"} ELSE {})

\* ModelCapabilityDefaults: given names the fields the caller set.
NoDefaults == [given |-> {}, defaultContextWindow |-> 0, defaultCostTier |-> "medium"]

\* inferModelCapabilities(model, defaults)
inferModelCapabilities(model, defaults) ==
  IF model.capabilities.declared THEN model.capabilities
  ELSE LET nameSignals == detectModelNameCapabilities(model.name, model.id)
           supportsVision == IF model.input # "unset" THEN model.input = "image"
                             ELSE nameSignals.supportsVision
           supportsReasoning == OrElse(model.reasoning, nameSignals.supportsReasoning)
           contextWindow == IF model.contextWindow > 0 THEN model.contextWindow
                            ELSE IF nameSignals.contextWindow > 0 THEN nameSignals.contextWindow
                            ELSE IF "defaultContextWindow" \in defaults.given
                            THEN defaults.defaultContextWindow
                            ELSE DEFAULT_CONTEXT_WINDOW
       IN [declared |-> FALSE,
           taskTypes |-> inferTaskTypes(supportsVision, supportsReasoning,
                                        nameSignals.supportsCoding, contextWindow),
           maxComplexity |-> inferMaxComplexity(contextWindow, supportsReasoning),
           supportsVision |-> supportsVision,
           supportsReasoning |-> supportsReasoning,
           contextWindow |-> contextWindow,
           costTier |-> inferCostTier(model.costTenths,
                                      IF "defaultCostTier" \in defaults.given
                                      THEN defaults.defaultCostTier ELSE "medium")]

\* getModelCapabilities(model): modelCatalogEntryToCapabilities is called
\* without defaults.
getModelCapabilities(model) ==
  IF model.capabilities.declared THEN model.capabilities
  ELSE inferModelCapabilities(model, NoDefaults)

(***************************************************************************)
(* Model scorer.  Sub-scores are integers in units of 1/SubScoreOne; a     *)
(* weight set is four numerators over the denominator den; a total score   *)
(* is totalScore/den, all totals of one ranking sharing den.               *)
(***************************************************************************)
SubScoreOne == 1200

DEFAULT_SCORING_WEIGHTS ==
  [capabilityMatch |-> 4, costEfficiency |-> 3, performance |-> 2, availability |-> 1, den |-> 10]

COST_TIER_SCORES(costTier) ==
  CASE costTier = "free" -> 1200
    [] costTier = "low" -> 840
    [] costTier = "medium" -> 480
    [] costTier = "high" -> 240
    [] OTHER -> 480

COMPLEXITY_LEVELS(complexity) ==
  CASE complexity = "simple" -> 1
    [] complexity = "moderate" -> 2
    [] complexity = "complex" -> 3

Abs(x) == IF x < 0 THEN 0 - x ELSE x

WeightSum(weights) ==
  weights.capabilityMatch + weights.costEfficiency + weights.performance + weights.availability

normalizeWeights(weights) ==
  LET sum == WeightSum(weights)
  IN IF sum = 0 THEN DEFAULT_SCORING_WEIGHTS
     ELSE IF 1000 * Abs(sum - weights.den) < weights.den THEN weights
     ELSE [weights EXCEPT !.den = sum]

\* scoreCapabilityMatch(model, task); estimatedContextTokens 0 stands for none.
scoreCapabilityMatch(model, task, estimatedContextTokens) ==
  LET capabilities == getModelCapabilities(model)
      modelComplexity == COMPLEXITY_LEVELS(capabilities.maxComplexity)
      taskComplexity == COMPLEXITY_LEVELS(task.complexity)
  IN (IF task.type \in capabilities.taskTypes THEN 360 ELSE 0)
     + (IF modelComplexity >= taskComplexity THEN 300
        ELSE (300 * modelComplexity) \div taskComplexity)
     + (IF task.requiresVision THEN (IF capabilities.supportsVision THEN 240 ELSE 0) ELSE 240)
     + (IF task.requiresReasoning THEN (IF capabilities.supportsReasoning THEN 180 ELSE 60)
        ELSE 180)
     + (IF estimatedContextTokens > 0
        THEN IF capabilities.contextWindow >= estimatedContextTokens THEN 120
             ELSE (120 * capabilities.contextWindow) \div estimatedContextTokens
        ELSE 120)

scoreCostEfficiency(model) == COST_TIER_SCORES(getModelCapabilities(model).costTier)

scorePerformance(model, task) ==
  LET capabilities == getModelCapabilities(model)
      contextWindow == capabilities.contextWindow
      contextScore == IF contextWindow >= 200000 THEN 720
                      ELSE IF contextWindow >= 128000 THEN 600
                      ELSE IF contextWindow >= 32000 THEN 480
                      ELSE IF contextWindow >= 8000 THEN 240
                      ELSE 120
      bonus == IF task.requiresReasoning \/ task.complexity = "complex"
               THEN (IF capabilities.supportsReasoning THEN 480 ELSE 120)
               ELSE 360
  IN IF contextScore + bonus > SubScoreOne THEN SubScoreOne ELSE contextScore + bonus

\* scoreAvailability(model, providerHealth); providerHealth is in units of
\* 1/SubScoreOne, hasHealth tells whether a finite number was given.
scoreAvailability(model, hasHealth, providerHealth) ==
  IF ~hasHealth THEN SubScoreOne
  ELSE IF providerHealth < 0 THEN 0
  ELSE IF providerHealth > SubScoreOne THEN SubScoreOne
  ELSE providerHealth

\* Math.round(subScore * 100)
Percent(subScore) == (subScore * 100 + (SubScoreOne \div 2)) \div SubScoreOne

explainScore(provider, model, breakdown, taskType) ==
  "Selected " \o provider \o "/" \o model \o " for " \o taskType \o " task: "
    \o ToString(Percent(breakdown.capability)) \o "% capability match, "
    \o ToString(Percent(breakdown.cost)) \o "% cost efficiency, "
    \o ToString(Percent(breakdown.performance)) \o "% performance, "
    \o ToString(Percent(breakdown.availability)) \o "% availability"

\* The scale of a total score: totalScore is kept in tenths of the weighted sum
\* so that the 10% provider boost stays integral.
BoostScale == 10

\* scoreModel({model, taskClassification, weights, providerHealth}); hasHealth
\* FALSE is providerHealth left out.
scoreModel(model, task, givenWeights, hasHealth, providerHealth) ==
  LET weights == normalizeWeights(givenWeights)
      breakdown == [capability |->
                      scoreCapabilityMatch(model, task,
                        IF "estimatedContextTokens" \in DOMAIN task
                        THEN task.estimatedContextTokens ELSE 0),
                    cost |-> scoreCostEfficiency(model),
                    performance |-> scorePerformance(model, task),
                    availability |-> scoreAvailability(model, hasHealth, providerHealth)]
  IN [provider |-> model.provider,
      model |-> model.id,
      totalScore |-> BoostScale * (breakdown.capability * weights.capabilityMatch
                                   + breakdown.cost * weights.costEfficiency
                                   + breakdown.performance * weights.performance
                                   + breakdown.availability * weights.availability),
      den |-> BoostScale * SubScoreOne * weights.den,
      breakdown |-> breakdown,
      reasoning |-> explainScore(model.provider, model.id, breakdown, task.type)]

\* The comparators handed to toSorted: "rank" is rankModels', "total" the one
\* of the re-sort after the provider boost.  den is a multiple of 1000, so
\* |a - b| > 0.001 is |a.totalScore - b.totalScore| > den / 1000.
CompareScores(mode, a, b) ==
  IF mode = "total" THEN b.totalScore - a.totalScore
  ELSE IF Abs(a.totalScore - b.totalScore) > a.den \div 1000 THEN b.totalScore - a.totalScore
  ELSE IF a.breakdown.cost # b.breakdown.cost THEN b.breakdown.cost - a.breakdown.cost
  ELSE b.breakdown.performance - a.breakdown.performance

Reverse(seq) == [i \in 1..Len(seq) |-> seq[Len(seq) + 1 - i]]

\* Array.prototype.toSorted as the engine runs it on a short array: the first
\* run is found (and reversed when strictly descending), the remaining
\* elements are placed by binary insertion.
RECURSIVE ExtendRun(_, _, _, _)
ExtendRun(a, mode, descending, length) ==
  IF length = Len(a) THEN length
  ELSE LET order == CompareScores(mode, a[length + 1], a[length])
       IN IF (descending /\ order >= 0) \/ (~descending /\ order < 0) THEN length
          ELSE ExtendRun(a, mode, descending, length + 1)

RECURSIVE BinarySearch(_, _, _, _, _)
BinarySearch(a, mode, pivot, left, right) ==
  IF left >= right THEN left
  ELSE LET mid == left + ((right - left) \div 2)
       IN IF CompareScores(mode, pivot, a[mid + 1]) < 0
          THEN BinarySearch(a, mode, pivot, left, mid)
          ELSE BinarySearch(a, mode, pivot, mid + 1, right)

RECURSIVE BinaryInsertionSort(_, _, _)
BinaryInsertionSort(a, mode, start) ==
  IF start >= Len(a) THEN a
  ELSE LET pivot == a[start + 1]
           pos == BinarySearch(a, mode, pivot, 0, start)
       IN BinaryInsertionSort(SubSeq(a, 1, pos) \o <<pivot>> \o SubSeq(a, pos + 1, start)
                                \o SubSeq(a, start + 2, Len(a)),
                              mode, start + 1)

toSorted(a, mode) ==
  IF Len(a) < 2 THEN a
  ELSE LET descending == CompareScores(mode, a[2], a[1]) < 0
           run == ExtendRun(a, mode, descending, 2)
           first == IF descending
                    THEN Reverse(SubSeq(a, 1, run)) \o SubSeq(a, run + 1, Len(a))
                    ELSE a
       IN BinaryInsertionSort(first, mode, run)

\* Whether scoring the model raises: a declared profile without taskTypes.
ScoringThrows(model) == model.defect = "taskTypes"

\* rankModels(models, task, weights): threw, or the sorted scores.
rankModels(models, task, weights) ==
  IF \E i \in 1..Len(models) : ScoringThrows(models[i])
  THEN [threw |-> TRUE, scores |-> <<>>]
  ELSE [threw |-> FALSE,
        scores |-> toSorted([i \in 1..Len(models) |-> scoreModel(models[i], task, weights, FALSE, 0)],
                            "rank")]

(***************************************************************************)
(* Task router.                                                            *)
(***************************************************************************)
\* String.prototype.toLowerCase on the provider names, model ids and model
\* refs of the model.
toLowerCase(s) ==
  CASE s = "Ollama" -> "ollama"
    [] s = "Anthropic" -> "anthropic"
    [] s = "ANTHROPIC" -> "anthropic"
    [] s = "OpenAI" -> "openai"
    [] s = "Claude-Sonnet" -> "claude-sonnet"
    [] s = "Ollama/Llama3.2" -> "ollama/llama3.2"
    [] s = "Anthropic/Claude-Sonnet" -> "anthropic/claude-sonnet"
    [] OTHER -> s

\* The provider of an entry that has none: reading it gives undefined, and
\* calling toLowerCase on it raises.
Undefined == "undefined"

\* `${provider}/${model}`.toLowerCase()
ModelKey(provider, model) == toLowerCase(provider) \o "/" \o toLowerCase(model)

SeqToSet(seq) == {seq[i] : i \in 1..Len(seq)}

RECURSIVE SelectSeq2(_, _)
\* Array.prototype.filter with the membership of keep as the test.
SelectSeq2(seq, keep) ==
  IF seq = <<>> THEN <<>>
  ELSE (IF Head(seq) \in keep THEN <<Head(seq)>> ELSE <<>>) \o SelectSeq2(Tail(seq), keep)

NoRequirements ==
  [requiresVision |-> FALSE, requiresReasoning |-> FALSE, minContextWindow |-> 0,
   allowedProviders |-> <<>>]

FilterTestMutantReasoningNotRequired(model, requirements) ==
  LET capabilities == getModelCapabilities(model)
  IN IF requirements.requiresVision /\ ~capabilities.supportsVision THEN "drop"
     ELSE IF requirements.minContextWindow > 0
             /\ capabilities.contextWindow < requirements.minContextWindow THEN "drop"
     ELSE IF Len(requirements.allowedProviders) > 0
          THEN IF model.provider = Undefined THEN "throw"
               ELSE IF \E i \in 1..Len(requirements.allowedProviders) :
                         toLowerCase(requirements.allowedProviders[i]) = toLowerCase(model.provider)
                    THEN "keep" ELSE "drop"
     ELSE "keep"

\* The test of filterModelsByCapabilities on one model: "keep", "drop" or "throw".
FilterTest(model, requirements) ==
  LET capabilities == getModelCapabilities(model)
  IN IF requirements.requiresVision /\ ~capabilities.supportsVision THEN "drop"
     ELSE IF requirements.requiresReasoning /\ ~capabilities.supportsReasoning THEN "drop"
     ELSE IF requirements.minContextWindow > 0
             /\ capabilities.contextWindow < requirements.minContextWindow THEN "drop"
     ELSE IF Len(requirements.allowedProviders) > 0
          THEN IF model.provider = Undefined THEN "throw"
               ELSE IF \E i \in 1..Len(requirements.allowedProviders) :
                         toLowerCase(requirements.allowedProviders[i]) = toLowerCase(model.provider)
                    THEN "keep" ELSE "drop"
     ELSE "keep"

\* filterModelsByCapabilities(models, requirements): threw, or the models kept.
filterModelsByCapabilities(models, requirements) ==
  IF \E i \in 1..Len(models) : FilterTest(models[i], requirements) = "throw"
  THEN [threw |-> TRUE, models |-> <<>>]
  ELSE [threw |-> FALSE,
        models |-> SelectSeq2(models, {m \in SeqToSet(models) : FilterTest(m, requirements) = "keep"})]

DEFAULT_ROUTING_CONFIG ==
  [enabled |-> FALSE,
   strategy |-> "balanced",
   preferLocal |-> TRUE,
   localProviders |-> <<"ollama">>,
   cloudProviders |-> <<"anthropic", "openai", "google">>,
   taskRules |-> <<>>,
   scoringWeights |-> DEFAULT_SCORING_WEIGHTS,
   fallbackBehavior |-> "default-model"]

\* mergeRoutingConfig(config): config.given names the fields the user set.
mergeRoutingConfig(config) ==
  LET Pick(field) == IF field \in config.given THEN config[field] ELSE DEFAULT_ROUTING_CONFIG[field]
  IN [enabled |-> Pick("enabled"),
      strategy |-> Pick("strategy"),
      preferLocal |-> Pick("preferLocal"),
      localProviders |-> Pick("localProviders"),
      cloudProviders |-> Pick("cloudProviders"),
      taskRules |-> Pick("taskRules"),
      scoringWeights |-> IF "scoringWeights" \in config.given
                         THEN normalizeWeights(config.scoringWeights)
                         ELSE DEFAULT_ROUTING_CONFIG.scoringWeights,
      fallbackBehavior |-> Pick("fallbackBehavior")]

\* applyRoutingStrategy(baseWeights)
applyRoutingStrategy(config, baseWeights) ==
  CASE config.strategy = "cost-optimized" ->
         normalizeWeights([capabilityMatch |-> 8 * baseWeights.capabilityMatch,
                           costEfficiency |-> 5 * baseWeights.den,
                           performance |-> 1 * baseWeights.den,
                           availability |-> 10 * baseWeights.availability,
                           den |-> 10 * baseWeights.den])
    [] config.strategy = "performance-optimized" ->
         normalizeWeights([capabilityMatch |-> 8 * baseWeights.capabilityMatch,
                           costEfficiency |-> 1 * baseWeights.den,
                           performance |-> 5 * baseWeights.den,
                           availability |-> 10 * baseWeights.availability,
                           den |-> 10 * baseWeights.den])
    [] OTHER -> normalizeWeights(baseWeights)

RuleMatchesMutantComplexityRequired(rule, task) ==
  rule.taskType = task.type /\ rule.complexity = task.complexity

RuleMatches(rule, task) ==
  /\ rule.taskType = task.type
  /\ (rule.complexity = "unset" \/ rule.complexity = task.complexity)

LowerSet(seq) == {toLowerCase(seq[i]) : i \in 1..Len(seq)}

HasUndefinedProvider(models) == \E i \in 1..Len(models) : models[i].provider = Undefined

ApplyRuleMutantNoVisionFilter(rule, task, filtered) ==
  LET excludeThrows == Len(rule.excludeProviders) > 0 /\ HasUndefinedProvider(filtered)
      afterExclude ==
        IF Len(rule.excludeProviders) > 0
        THEN SelectSeq2(filtered, {m \in SeqToSet(filtered) :
                                     toLowerCase(m.provider) \notin LowerSet(rule.excludeProviders)})
        ELSE filtered
      preferThrows == Len(rule.preferredProviders) > 0 /\ HasUndefinedProvider(afterExclude)
      preferredByProvider ==
        SelectSeq2(afterExclude, {m \in SeqToSet(afterExclude) :
                                    toLowerCase(m.provider) \in LowerSet(rule.preferredProviders)})
      afterProviders ==
        IF Len(rule.preferredProviders) > 0 /\ Len(preferredByProvider) > 0
        THEN preferredByProvider ELSE afterExclude
      preferredByModel ==
        SelectSeq2(afterProviders, {m \in SeqToSet(afterProviders) :
                                      ModelKey(m.provider, m.id) \in LowerSet(rule.preferredModels)})
      afterModels ==
        IF Len(rule.preferredModels) > 0 /\ Len(preferredByModel) > 0
        THEN preferredByModel ELSE afterProviders
  IN IF excludeThrows \/ preferThrows THEN [threw |-> TRUE, models |-> <<>>]
     ELSE filterModelsByCapabilities(afterModels,
            [requiresVision |-> FALSE,
             requiresReasoning |-> OrElse(rule.requireReasoning, task.requiresReasoning),
             minContextWindow |-> rule.minContextWindow,
             allowedProviders |-> <<>>])

\* One pass of the for loop of applyTaskRules over a matching rule.
ApplyRule(rule, task, filtered) ==
  LET excludeThrows == Len(rule.excludeProviders) > 0 /\ HasUndefinedProvider(filtered)
      afterExclude ==
        IF Len(rule.excludeProviders) > 0
        THEN SelectSeq2(filtered, {m \in SeqToSet(filtered) :
                                     toLowerCase(m.provider) \notin LowerSet(rule.excludeProviders)})
        ELSE filtered
      preferThrows == Len(rule.preferredProviders) > 0 /\ HasUndefinedProvider(afterExclude)
      preferredByProvider ==
        SelectSeq2(afterExclude, {m \in SeqToSet(afterExclude) :
                                    toLowerCase(m.provider) \in LowerSet(rule.preferredProviders)})
      afterProviders ==
        IF Len(rule.preferredProviders) > 0 /\ Len(preferredByProvider) > 0
        THEN preferredByProvider ELSE afterExclude
      preferredByModel ==
        SelectSeq2(afterProviders, {m \in SeqToSet(afterProviders) :
                                      ModelKey(m.provider, m.id) \in LowerSet(rule.preferredModels)})
      afterModels ==
        IF Len(rule.preferredModels) > 0 /\ Len(preferredByModel) > 0
        THEN preferredByModel ELSE afterProviders
  IN IF excludeThrows \/ preferThrows THEN [threw |-> TRUE, models |-> <<>>]
     ELSE filterModelsByCapabilities(afterModels,
            [requiresVision |-> task.requiresVision,
             requiresReasoning |-> OrElse(rule.requireReasoning, task.requiresReasoning),
             minContextWindow |-> rule.minContextWindow,
             allowedProviders |-> <<>>])

RECURSIVE ApplyRules(_, _, _)
ApplyRules(rules, task, filtered) ==
  IF rules = <<>> THEN [threw |-> FALSE, models |-> filtered]
  ELSE IF ~RuleMatches(Head(rules), task) THEN ApplyRules(Tail(rules), task, filtered)
  ELSE LET step == ApplyRule(Head(rules), task, filtered)
       IN IF step.threw THEN step ELSE ApplyRules(Tail(rules), task, step.models)

\* applyTaskRules(catalog, task)
applyTaskRules(config, catalog, task) == ApplyRules(config.taskRules, task, catalog)

\* Math.min(score.totalScore * 1.1, 1.0)
Boost(score) ==
  LET boosted == (score.totalScore * 11) \div 10
  IN [score EXCEPT !.totalScore = IF boosted > score.den THEN score.den ELSE boosted]

ProviderPreferenceMutantLocalIgnoresCloud(config, task) ==
  LET prefersCloud == task.complexity = "complex" \/ task.requiresReasoning
      prefersLocal == config.preferLocal /\ task.complexity = "simple"
  IN IF prefersCloud /\ Len(config.cloudProviders) > 0 THEN "cloud"
     ELSE IF prefersLocal /\ Len(config.localProviders) > 0 THEN "local"
     ELSE "none"

\* The preference chosen by applyProviderPreference.
ProviderPreference(config, task) ==
  LET prefersCloud == task.complexity = "complex" \/ task.requiresReasoning
      prefersLocal == config.preferLocal /\ task.complexity = "simple" /\ ~prefersCloud
  IN IF prefersCloud /\ Len(config.cloudProviders) > 0 THEN "cloud"
     ELSE IF prefersLocal /\ Len(config.localProviders) > 0 THEN "local"
     ELSE "none"

\* applyProviderPreference(rankedScores, taskClassification)
applyProviderPreference(config, rankedScores, task) ==
  LET preference == ProviderPreference(config, task)
      preferredProviders == IF preference = "cloud" THEN LowerSet(config.cloudProviders)
                            ELSE LowerSet(config.localProviders)
  IN IF preference = "none"
     THEN [threw |-> FALSE, scores |-> rankedScores, preference |-> preference]
     ELSE IF \E i \in 1..Len(rankedScores) : rankedScores[i].provider = Undefined
     THEN [threw |-> TRUE, scores |-> <<>>, preference |-> preference]
     ELSE [threw |-> FALSE,
           scores |-> toSorted([i \in 1..Len(rankedScores) |->
                                  IF toLowerCase(rankedScores[i].provider) \in preferredProviders
                                  THEN Boost(rankedScores[i]) ELSE rankedScores[i]],
                               "total"),
           preference |-> preference]

DefaultMaxFallbacks == 3

\* The loop shared by both generateFallbackList functions: the ranked entries
\* collected, the primary's key skipped, at most maxFallbacks of them.
RECURSIVE CollectFallbacks(_, _, _, _)
CollectFallbacks(rankedScores, primaryKey, maxFallbacks, fallbacks) ==
  IF rankedScores = <<>> \/ Len(fallbacks) >= maxFallbacks THEN fallbacks
  ELSE IF ModelKey(Head(rankedScores).provider, Head(rankedScores).model) = primaryKey
       THEN CollectFallbacks(Tail(rankedScores), primaryKey, maxFallbacks, fallbacks)
       ELSE CollectFallbacks(Tail(rankedScores), primaryKey, maxFallbacks,
                             Append(fallbacks, [provider |-> Head(rankedScores).provider,
                                                model |-> Head(rankedScores).model]))

GenerateFallbackListMutantCaseSensitive(rankedScores, primary, maxFallbacks) ==
  CollectFallbacks(rankedScores, primary.provider \o "/" \o primary.model, maxFallbacks, <<>>)

\* TaskBasedModelRouter.generateFallbackList and the exported generateFallbackList.
generateFallbackList(rankedScores, primary, maxFallbacks) ==
  CollectFallbacks(rankedScores, ModelKey(primary.provider, primary.model), maxFallbacks, <<>>)

FallbackListMutantAlwaysReturned(fallbacks) == TRUE

\* Line 452 of the router's method: the list is returned when it has an
\* entry, undefined otherwise.  FALSE stands for undefined.
FallbackListReturned(fallbacks) == Len(fallbacks) > 0

(***************************************************************************)
(* The override text is a sequence of tokens: " " is white space, "/" a    *)
(* slash, any other token a run of other characters.                       *)
(***************************************************************************)
RECURSIVE Concat(_)
Concat(tokens) == IF tokens = <<>> THEN "" ELSE Head(tokens) \o Concat(Tail(tokens))

RECURSIVE TrimStart(_)
TrimStart(tokens) ==
  IF tokens # <<>> /\ Head(tokens) = " " THEN TrimStart(Tail(tokens)) ELSE tokens

RECURSIVE TrimEnd(_)
TrimEnd(tokens) ==
  IF tokens # <<>> /\ tokens[Len(tokens)] = " "
  THEN TrimEnd(SubSeq(tokens, 1, Len(tokens) - 1)) ELSE tokens

\* String.prototype.trim
TrimText(tokens) == TrimEnd(TrimStart(tokens))

RECURSIVE IndexFrom(_, _, _)
IndexFrom(tokens, token, i) ==
  IF i > Len(tokens) THEN 0
  ELSE IF tokens[i] = token THEN i ELSE IndexFrom(tokens, token, i + 1)

\* String.prototype.indexOf, counted from 1; 0 when the token does not occur.
indexOf(tokens, token) == IndexFrom(tokens, token, 1)

\* overrideModel?.trim() is truthy; the empty text stands for no override.
HasOverride(overrideModel) == TrimText(overrideModel) # <<>>

ParseMutantLastSlash(overrideModel) ==
  LET trimmed == TrimText(overrideModel)
      slashes == {i \in 1..Len(trimmed) : trimmed[i] = "/"}
      slashIndex == IF slashes = {} THEN 0 ELSE CHOOSE i \in slashes : \A j \in slashes : j <= i
  IN IF slashIndex = 0 THEN [provider |-> "anthropic", model |-> Concat(trimmed)]
     ELSE [provider |-> Concat(TrimText(SubSeq(trimmed, 1, slashIndex - 1))),
           model |-> Concat(TrimText(SubSeq(trimmed, slashIndex + 1, Len(trimmed))))]

parseOverrideModelRef(overrideModel) ==
  LET trimmed == TrimText(overrideModel)
      slashIndex == indexOf(trimmed, "/")
  IN IF slashIndex = 0 THEN [provider |-> "anthropic", model |-> Concat(trimmed)]
     ELSE [provider |-> Concat(TrimText(SubSeq(trimmed, 1, slashIndex - 1))),
           model |-> Concat(TrimText(SubSeq(trimmed, slashIndex + 1, Len(trimmed))))]

buildManualOverrideRoutingResult(overrideModel, prompt, hasImages, hints) ==
  LET primary == parseOverrideModelRef(overrideModel)
      taskClassification == classifyTask(prompt, hasImages, hints)
  IN [kind |-> "result",
      primary |-> primary,
      fallbacks |-> <<>>,
      decision |->
        [selectedScore |->
           [provider |-> primary.provider,
            model |-> primary.model,
            totalScore |-> 1,
            den |-> 1,
            breakdown |-> [capability |-> SubScoreOne, cost |-> SubScoreOne,
                           performance |-> SubScoreOne, availability |-> SubScoreOne],
            reasoning |-> "Manual override: " \o primary.provider \o "/" \o primary.model],
         taskClassification |-> taskClassification,
         allRankedScores |-> <<>>,
         reasoning |-> "Manual model override: " \o primary.provider \o "/" \o primary.model],
      steps |-> <<"override">>,
      raised |-> "none"]

handleModelOverride(overrideModel, prompt, hasImages, hints) ==
  buildManualOverrideRoutingResult(overrideModel, prompt, hasImages, hints)

(***************************************************************************)
(* selectModelForTask.  A result carries two ghost fields: steps, the      *)
(* stages of the pipeline that ran, and raised, the stage in which an      *)
(* error was thrown ("none" without one).  fallbacks <<>> stands for an    *)
(* undefined fallbacks field.                                              *)
(***************************************************************************)
RoutingEnabledMutantAlways(config) == TRUE

\* this.config.enabled, the test of the early return.
RoutingEnabled(config) == config.enabled

NullResult(steps, raised) == [kind |-> "null", steps |-> steps, raised |-> raised]

CatchRoutingErrorMutantRaise(steps, raised) == [kind |-> "throw", steps |-> steps, raised |-> raised]

\* The catch block of selectModelForTask.
CatchRoutingError(steps, raised) == NullResult(steps, raised)

\* The try block of selectModelForTask, from its last statement back to its
\* first: each stage is handed the values computed before it.

\* Lines 216-257: the primary, the fallbacks and the decision.
BuildResult(r, taskClassification, finalRankedScores, preference) ==
  LET selectedScore == finalRankedScores[1]
  IN [kind |-> "result",
      primary |-> [provider |-> selectedScore.provider, model |-> selectedScore.model],
      fallbacks |-> generateFallbackList(finalRankedScores, selectedScore, DefaultMaxFallbacks),
      hasFallbacks |-> FallbackListReturned(generateFallbackList(finalRankedScores, selectedScore,
                                                                 DefaultMaxFallbacks)),
      decision |->
        [selectedScore |-> selectedScore,
         taskClassification |-> taskClassification,
         allRankedScores |-> finalRankedScores,
         reasoning |-> "Task-based routing: "
                         \o explainScore(selectedScore.provider, selectedScore.model,
                                         selectedScore.breakdown, taskClassification.type)
                         \o " | Strategy: " \o r.config.strategy
                         \o " | Provider preference: " \o preference],
      steps |-> <<"classify", "allowed", "rules", "strategy", "rank", "preference",
                  "fallbacks">>,
      raised |-> "none"]

\* Lines 210-214: the provider preference.
PreferStage(r, taskClassification, preferred) ==
  IF preferred.threw
  THEN CatchRoutingError(<<"classify", "allowed", "rules", "strategy", "rank", "preference">>,
                         "preference")
  ELSE BuildResult(r, taskClassification, preferred.scores, preferred.preference)

\* Lines 205-208: no ranked model.
RankStage(r, taskClassification, ranked) ==
  IF ranked.threw
  THEN CatchRoutingError(<<"classify", "allowed", "rules", "strategy", "rank">>, "rank")
  ELSE IF Len(ranked.scores) = 0
  THEN NullResult(<<"classify", "allowed", "rules", "strategy", "rank">>, "none")
  ELSE PreferStage(r, taskClassification,
                   applyProviderPreference(r.config, ranked.scores, taskClassification))

RulesStageMutantNoRestore(r, taskClassification, ruled) ==
  IF ruled.threw THEN CatchRoutingError(<<"classify", "allowed", "rules">>, "rules")
  ELSE RankStage(r, taskClassification,
                 rankModels(ruled.models, taskClassification,
                            applyRoutingStrategy(r.config, r.config.scoringWeights)))

\* Lines 192-203: the full catalog restored after empty rules, the weights, the ranking.
RulesStage(r, taskClassification, ruled) ==
  IF ruled.threw THEN CatchRoutingError(<<"classify", "allowed", "rules">>, "rules")
  ELSE RankStage(r, taskClassification,
                 rankModels(IF Len(ruled.models) = 0 THEN r.catalog ELSE ruled.models,
                            taskClassification,
                            applyRoutingStrategy(r.config, r.config.scoringWeights)))

\* Lines 181-190: the full catalog restored after an empty allow filter, the task rules.
AllowedStage(r, taskClassification, allowed) ==
  IF allowed.threw THEN CatchRoutingError(<<"classify", "allowed">>, "allowed")
  ELSE RulesStage(r, taskClassification,
                  applyTaskRules(r.config,
                                 IF Len(allowed.models) = 0 THEN r.catalog ELSE allowed.models,
                                 taskClassification))

\* Lines 176-180: the allow filter.
ClassifiedStage(r, options, taskClassification) ==
  AllowedStage(r, taskClassification,
               IF Len(options.allowedProviders) > 0
               THEN filterModelsByCapabilities(r.catalog,
                      [NoRequirements EXCEPT !.allowedProviders = options.allowedProviders])
               ELSE [threw |-> FALSE, models |-> r.catalog])

TryRouting(r, options) ==
  ClassifiedStage(r, options, classifyTask(options.prompt, options.hasImages, options.hints))

selectModelForTask(r, options) ==
  IF HasOverride(options.overrideModel)
  THEN handleModelOverride(options.overrideModel, options.prompt, options.hasImages,
                           options.hints)
  ELSE IF ~RoutingEnabled(r.config) THEN NullResult(<<>>, "none")
  ELSE TryRouting(r, options)

(***************************************************************************)
(* routeModelForTask.  The catalog is what loadModelCatalog hands back,    *)
(* the credential store and the default model are the collaborators'.      *)
(***************************************************************************)
\* loadRoutingConfig(cfg): cfg absent or without a routing section gives
\* { enabled: false }.
loadRoutingConfig(userConfig) ==
  IF userConfig.present THEN userConfig
  ELSE [userConfig EXCEPT !.given = {"enabled"}, !.enabled = FALSE]

FilterFallbacksMutantEveryProfile(store, fallbacks) ==
  IF store.throws THEN fallbacks
  ELSE SelectSeq2(fallbacks,
         {f \in SeqToSet(fallbacks) :
            \A pr \in {q \in store.profiles : q.provider = f.provider} : ~pr.inCooldown})

\* filterFallbacksByCooldown: store.throws is ensureAuthProfileStore raising,
\* store.profiles the profiles with their provider and cooldown state.
filterFallbacksByCooldown(store, fallbacks) ==
  IF store.throws THEN fallbacks
  ELSE SelectSeq2(fallbacks,
         {f \in SeqToSet(fallbacks) :
            LET profileIds == {pr \in store.profiles : pr.provider = f.provider}
            IN profileIds = {} \/ \E pr \in profileIds : ~pr.inCooldown})

\* resolveDefaultModelForAgent
DefaultModelRef == [provider |-> "anthropic", model |-> "claude-default"]

RefText(ref) == ref.provider \o "/" \o ref.model

RouteOutcomeMutantAlwaysDefault(userConfig, routingConfig, params, inner) ==
  IF inner.kind = "result"
  THEN [kind |-> "routed",
        provider |-> inner.primary.provider,
        model |-> inner.primary.model,
        fallbacks |-> [i \in 1..Len(inner.fallbacks) |-> RefText(inner.fallbacks[i])],
        hasFallbacks |-> Len(inner.fallbacks) > 0,
        decision |-> inner.decision,
        inner |-> inner]
  ELSE [kind |-> "default",
        provider |-> DefaultModelRef.provider,
        model |-> DefaultModelRef.model,
        inner |-> inner]

\* Lines 612-655: what routeModelForTask returns once the router, if one was
\* created, has answered; inner is its answer, null when none was created.
RouteOutcome(userConfig, routingConfig, params, inner) ==
  IF inner.kind = "throw" THEN [kind |-> "throw", inner |-> inner]
  ELSE IF inner.kind = "result"
  THEN [kind |-> "routed",
        provider |-> inner.primary.provider,
        model |-> inner.primary.model,
        fallbacks |->
          LET filteredFallbacks ==
                IF Len(inner.fallbacks) > 0 /\ params.agentDir /\ userConfig.present
                THEN filterFallbacksByCooldown(params.store, inner.fallbacks)
                ELSE inner.fallbacks
          IN [i \in 1..Len(filteredFallbacks) |-> RefText(filteredFallbacks[i])],
        hasFallbacks |-> Len(inner.fallbacks) > 0,
        decision |-> inner.decision,
        inner |-> inner]
  ELSE IF (IF "fallbackBehavior" \in routingConfig.given
           THEN routingConfig.fallbackBehavior ELSE "default-model") = "manual-selection"
  THEN [kind |-> "manual", manualSelectionRequired |-> TRUE, inner |-> inner]
  ELSE [kind |-> "default",
        provider |-> DefaultModelRef.provider,
        model |-> DefaultModelRef.model,
        inner |-> inner]

\* createRouterFromConfig and the call of the router it returns.
RouteWithConfig(userConfig, routingConfig, catalog, params) ==
  RouteOutcome(userConfig, routingConfig, params,
               IF "enabled" \in routingConfig.given /\ routingConfig.enabled
               THEN selectModelForTask([config |-> mergeRoutingConfig(routingConfig),
                                        catalog |-> catalog], params)
               ELSE NullResult(<<>>, "none"))

\* The override branch of routeModelForTask.
RouteOverride(overrideResult) ==
  [kind |-> "override",
   provider |-> overrideResult.primary.provider,
   model |-> overrideResult.primary.model,
   fallbacks |-> <<>>,
   decision |-> overrideResult.decision,
   inner |-> overrideResult]

\* routeModelForTask(params); params.agentDir tells whether agentDir was given.
routeModelForTask(userConfig, catalog, params) ==
  IF HasOverride(params.overrideModel)
  THEN RouteOverride(buildManualOverrideRoutingResult(params.overrideModel, params.prompt,
                                                      params.hasImages, params.hints))
  ELSE RouteWithConfig(userConfig, loadRoutingConfig(userConfig), catalog, params)

(***************************************************************************)
(* The inputs: catalogs, routing configurations and call options.          *)
(***************************************************************************)
\* A catalog entry with a declared capability profile.
DeclaredEntry(provider, id, name, taskTypes, maxComplexity, supportsVision, supportsReasoning, contextWindow, costTier) ==
  [id |-> id, name |-> name, provider |-> provider, contextWindow |-> contextWindow,
   reasoning |-> IF supportsReasoning THEN "true" ELSE "false",
   input |-> IF supportsVision THEN "image" ELSE "text",
   costTenths |-> 0 - 1,
   capabilities |-> [declared |-> TRUE, taskTypes |-> taskTypes, maxComplexity |-> maxComplexity,
                     supportsVision |-> supportsVision, supportsReasoning |-> supportsReasoning,
                     contextWindow |-> contextWindow, costTier |-> costTier],
   defect |-> "none"]

\* An entry with nothing but its identity declared.
BareEntry(provider, id, name) ==
  [id |-> id, name |-> name, provider |-> provider, contextWindow |-> 0, reasoning |-> "unset",
   input |-> "unset", costTenths |-> 0 - 1, capabilities |-> NoCapabilities, defect |-> "none"]

Llama ==
  DeclaredEntry("ollama", "llama3.2", "Llama 3.2", {"coding", "chat", "general"}, "moderate",
                FALSE, FALSE, 128000, "free")
Claude ==
  DeclaredEntry("anthropic", "claude-sonnet", "Claude Sonnet",
                {"coding", "reasoning", "analysis", "chat", "vision", "general"}, "complex",
                TRUE, TRUE, 200000, "medium")
\* The same identity as Claude in another case.
ClaudeUpper == [Claude EXCEPT !.provider = "Anthropic", !.id = "Claude-Sonnet"]
Gpt ==
  DeclaredEntry("openai", "gpt-4o", "GPT-4o", {"coding", "analysis", "chat", "vision", "general"},
                "complex", TRUE, FALSE, 128000, "medium")
DeepSeek == BareEntry("ollama", "deepseek-r1", "DeepSeek R1")
Llava == BareEntry("ollama", "llava", "LLaVA 7B")
\* A declared profile cast from configuration without taskTypes.
Broken ==
  [DeclaredEntry("openai", "broken", "Broken", {}, "complex", TRUE, TRUE, 128000, "low")
     EXCEPT !.defect = "taskTypes"]
\* An entry without a provider.
Orphan == [Gpt EXCEPT !.provider = Undefined, !.id = "orphan"]

Catalogs ==
  { <<>>,
    <<Llama, Claude, Gpt>>,
    <<Claude, Llama, ClaudeUpper, Gpt, DeepSeek, Llava>>,
    <<Llama, Llava>>,
    <<Llama, Broken, Claude>>,
    <<Llama, Orphan, Claude>> }

NoRule ==
  [taskType |-> "general", complexity |-> "unset", preferredProviders |-> <<>>,
   preferredModels |-> <<>>, excludeProviders |-> <<>>, requireReasoning |-> "unset",
   minContextWindow |-> 0]

RuleSets ==
  { <<>>,
    << [NoRule EXCEPT !.taskType = "coding", !.requireReasoning = "true"] >>,
    << [NoRule EXCEPT !.taskType = "coding", !.excludeProviders = <<"Ollama">>] >>,
    << [NoRule EXCEPT !.taskType = "coding", !.excludeProviders = <<"Anthropic", "openai">>] >>,
    << [NoRule EXCEPT !.taskType = "coding", !.requireReasoning = "true",
                      !.excludeProviders = <<"anthropic">>] >>,
    << [NoRule EXCEPT !.taskType = "coding", !.complexity = "simple",
                      !.preferredProviders = <<"openai", "google">>,
                      !.preferredModels = <<"Ollama/Llama3.2">>],
       [NoRule EXCEPT !.taskType = "coding", !.minContextWindow = 150000] >>,
    << [NoRule EXCEPT !.taskType = "reasoning", !.preferredModels = <<"Ollama/Llama3.2">>,
                      !.requireReasoning = "false"] >>,
    << [NoRule EXCEPT !.taskType = "coding", !.requireReasoning = "true"],
       [NoRule EXCEPT !.taskType = "coding", !.requireReasoning = "false"] >> }

\* A user configuration: given names the fields that are set.
NoUserConfig ==
  [present |-> FALSE, given |-> {}, enabled |-> FALSE, strategy |-> "balanced",
   preferLocal |-> TRUE, localProviders |-> <<>>, cloudProviders |-> <<>>, taskRules |-> <<>>,
   scoringWeights |-> DEFAULT_SCORING_WEIGHTS, fallbackBehavior |-> "default-model"]

ProviderPolicies ==
  { [given |-> {"preferLocal", "cloudProviders"}, preferLocal |-> FALSE, localProviders |-> <<>>,
     cloudProviders |-> <<>>],
    [given |-> {"localProviders", "cloudProviders"}, preferLocal |-> TRUE,
     localProviders |-> <<"Ollama">>, cloudProviders |-> <<"OpenAI">>],
    [given |-> {"cloudProviders"}, preferLocal |-> TRUE, localProviders |-> <<>>,
     cloudProviders |-> <<>>] }

UserConfigs ==
  {NoUserConfig}
    \cup { [NoUserConfig EXCEPT !.present = TRUE, !.given = {"enabled", "taskRules"},
                                !.enabled = TRUE, !.taskRules = rules] : rules \in RuleSets }
    \cup { [NoUserConfig EXCEPT !.present = TRUE, !.given = {"enabled", "taskRules"},
                                !.enabled = FALSE, !.taskRules = rules] :
             rules \in {rs \in RuleSets : Len(rs) <= 1 /\ \A i \in 1..Len(rs) :
                                                            rs[i].requireReasoning # "false"} }
    \cup { [NoUserConfig EXCEPT !.present = TRUE, !.given = {"enabled"} \cup policy.given,
                                !.enabled = TRUE,
                                !.preferLocal = policy.preferLocal,
                                !.localProviders = policy.localProviders,
                                !.cloudProviders = policy.cloudProviders] :
             policy \in ProviderPolicies }
    \cup { [NoUserConfig EXCEPT !.present = TRUE,
                                !.given = {"enabled", "strategy", "fallbackBehavior"},
                                !.enabled = strategy # "balanced",
                                !.strategy = strategy,
                                !.fallbackBehavior = "manual-selection"] :
             strategy \in {"balanced", "cost-optimized", "performance-optimized"} }
    \cup { [NoUserConfig EXCEPT !.present = TRUE,
                                !.given = {"enabled", "scoringWeights"},
                                !.enabled = TRUE,
                                !.scoringWeights = weights] :
             weights \in { [capabilityMatch |-> 0, costEfficiency |-> 0, performance |-> 0,
                            availability |-> 0, den |-> 1],
                           [capabilityMatch |-> 2, costEfficiency |-> 1, performance |-> 1,
                            availability |-> 0, den |-> 1] } }

\* new TaskBasedModelRouter(config, catalog)
NewRouter(userConfig, catalog) ==
  [userConfig |-> userConfig,
   config |-> mergeRoutingConfig(userConfig),
   catalog |-> catalog]

\* A local model that reasons but does not see, and a costly one that does both.
Qwq ==
  DeclaredEntry("ollama", "qwq", "QwQ 32B", {"coding", "reasoning", "analysis", "chat", "general"},
                "complex", FALSE, TRUE, 200000, "free")
Opus ==
  DeclaredEntry("anthropic", "claude-3-opus", "Claude 3 Opus",
                {"coding", "reasoning", "analysis", "chat", "vision", "general"}, "complex",
                TRUE, TRUE, 200000, "high")

\* A router without cloud providers whose weights (0.011, 0.001, 0, 0.988)
\* leave the totals of its three backends within 0.0015 of each other.
CloseScoresRouter ==
  NewRouter([NoUserConfig EXCEPT !.present = TRUE,
                                 !.given = {"enabled", "scoringWeights", "cloudProviders"},
                                 !.enabled = TRUE,
                                 !.cloudProviders = <<>>,
                                 !.scoringWeights =
                                   [capabilityMatch |-> 11, costEfficiency |-> 1,
                                    performance |-> 0, availability |-> 988, den |-> 1000]],
            <<Qwq, Gpt, Opus>>)

Routers ==
  {NewRouter(userConfig, catalog) : userConfig \in UserConfigs, catalog \in Catalogs}
    \cup {CloseScoresRouter}

Prompts ==
  { [words |-> <<>>, filler |-> 0],
    [words |-> <<"fix", "the", "bug">>, filler |-> 0],
    [words |-> <<"hello">>, filler |-> 0],
    [words |-> <<"debug", "the", "entire", "system">>, filler |-> 0],
    [words |-> <<"prove", "the", "theorem", "step", "by", "step">>, filler |-> 150] }

ReasoningHint == [NoHints EXCEPT !.taskType = "reasoning"]

HintSets ==
  { NoHints,
    ReasoningHint,
    [NoHints EXCEPT !.complexity = "complex", !.requiresReasoning = "false"] }

AllowedProviderLists == { <<>>, <<"Ollama">>, <<"openai">>, <<"google">> }

NoStore == [throws |-> FALSE, profiles |-> {}]

Stores ==
  { [throws |-> TRUE, profiles |-> {}],
    [throws |-> FALSE,
     profiles |-> { [provider |-> "ollama", id |-> "ollama:default", inCooldown |-> TRUE],
                    [provider |-> "anthropic", id |-> "anthropic:a", inCooldown |-> TRUE],
                    [provider |-> "anthropic", id |-> "anthropic:b", inCooldown |-> FALSE] }] }

\* Override texts, as token sequences.
OverrideTexts ==
  { <<"gpt-4o">>,
    <<" ", "gpt-4o", " ">>,
    <<"openai", "/", "gpt-4o">>,
    <<" ", "openai", " ", "/", " ", "gpt-4o", " ">>,
    <<"openrouter", "/", "meta", "/", "llama">>,
    <<"openai", " ", "gpt-4o">>,
    <<"/", "gpt-4o">>,
    <<"openai", "/">>,
    <<"/">>,
    <<"ollama", "/", "llama3.2">> }

\* The options of the calls made without an override, and with one.
RoutedOptions ==
  { [prompt |-> prompt, hasImages |-> hasImages, hints |-> hints, overrideModel |-> blank,
     allowedProviders |-> allowed, agentDir |-> FALSE, store |-> NoStore] :
      prompt \in Prompts, hasImages \in BOOLEAN, hints \in HintSets,
      allowed \in AllowedProviderLists, blank \in {<<>>} }
    \cup { [prompt |-> [words |-> <<"fix", "the", "bug">>, filler |-> 0], hasImages |-> FALSE,
            hints |-> NoHints, overrideModel |-> <<" ">>, allowedProviders |-> <<>>,
            agentDir |-> FALSE, store |-> NoStore] }
    \cup { [prompt |-> [words |-> <<"fix", "the", "bug">>, filler |-> 0], hasImages |-> TRUE,
            hints |-> [NoHints EXCEPT !.taskType = "coding", !.requiresReasoning = "true"],
            overrideModel |-> <<>>, allowedProviders |-> <<>>,
            agentDir |-> FALSE, store |-> NoStore] }

OverrideOptions ==
  { [prompt |-> [words |-> <<"fix", "the", "bug">>, filler |-> 0], hasImages |-> FALSE,
     hints |-> NoHints, overrideModel |-> text, allowedProviders |-> allowed,
     agentDir |-> FALSE, store |-> NoStore] :
      text \in OverrideTexts, allowed \in { <<>>, <<"Ollama">> } }

\* The params of the routeModelForTask calls: the options above, with and
\* without agentDir and the credential store behind it.
RouteParams ==
  { [options EXCEPT !.agentDir = TRUE, !.store = store] :
      options \in {o \in RoutedOptions : o.hasImages = FALSE
                                            /\ o.allowedProviders \in {<<>>, <<"Ollama">>}},
      store \in Stores }
    \cup {o \in RoutedOptions : o.hints = NoHints /\ o.allowedProviders = <<>>}
    \cup {o \in OverrideOptions : o.allowedProviders = <<>>}

\* The largest maxFallbacks handed to the exported generateFallbackList.
MaxFallbacksArg == 4

\* The rankings handed to the exported generateFallbackList: those of the
\* router's catalog for a coding task and for a reasoning task.
ExportedRankings(r) ==
  LET RankFor(hints) ==
        rankModels(r.catalog,
                   classifyTask([words |-> <<"fix", "the", "bug">>, filler |-> 0], FALSE, hints),
                   DEFAULT_SCORING_WEIGHTS)
  IN {ranking.scores : ranking \in {rk \in {RankFor(NoHints), RankFor(ReasoningHint)} : ~rk.threw}}

(***************************************************************************)
(* The router's caller: from idle it makes one call, then takes the        *)
(* result.  No operation assigns to the router, its configuration or its   *)
(* catalog.                                                                *)
(***************************************************************************)
SelectModelForTaskMutantSortsInPlace(options) ==
  /\ pc = "idle"
  /\ call' = [op |-> "selectModelForTask", options |-> options]
  /\ result' = selectModelForTask(router, options)
  /\ pc' = "returned"
  /\ router' = [router EXCEPT !.catalog = Reverse(router.catalog)]
  /\ UNCHANGED <<catalogVars, metricsVars>>

SelectModelForTask(options) ==
  /\ pc = "idle"
  /\ call' = [op |-> "selectModelForTask", options |-> options]
  /\ result' = selectModelForTask(router, options)
  /\ pc' = "returned"
  /\ UNCHANGED <<router, catalogVars, metricsVars>>

RouteModelForTask(params) ==
  /\ pc = "idle"
  /\ call' = [op |-> "routeModelForTask", options |-> params]
  /\ result' = routeModelForTask(router.userConfig, router.catalog, params)
  /\ pc' = "returned"
  /\ UNCHANGED <<router, catalogVars, metricsVars>>

\* The exported generateFallbackList; maxFallbacks -1 stands for the
\* argument left out.
GenerateFallbackList(rankedScores, primary, maxFallbacks) ==
  /\ pc = "idle"
  /\ call' = [op |-> "generateFallbackList", rankedScores |-> rankedScores,
              primary |-> primary, maxFallbacks |-> maxFallbacks]
  /\ result' =
       LET fallbacks == generateFallbackList(rankedScores, primary,
                          IF maxFallbacks < 0 THEN DefaultMaxFallbacks ELSE maxFallbacks)
       IN [kind |-> "fallbackList",
           refs |-> fallbacks,
           fallbacks |-> [i \in 1..Len(fallbacks) |-> RefText(fallbacks[i])]]
  /\ pc' = "returned"
  /\ UNCHANGED <<router, catalogVars, metricsVars>>

Return ==
  /\ pc = "returned"
  /\ pc' = "idle"
  /\ call' = NoCall
  /\ result' = NoResult
  /\ UNCHANGED <<router, catalogVars, metricsVars>>

RouterInit ==
  /\ CatalogInit
  /\ router \in Routers
  /\ pc = "idle"
  /\ call = NoCall
  /\ result = NoResult
  /\ MetricsIdle

RouterNext ==
  \/ \E options \in RoutedOptions \cup OverrideOptions : SelectModelForTask(options)
  \/ \E params \in RouteParams : RouteModelForTask(params)
  \/ \E rankedScores \in ExportedRankings(router) :
       \E primary \in {[provider |-> rankedScores[i].provider, model |-> rankedScores[i].model] :
                         i \in 1..Len(rankedScores)}
                        \cup {[provider |-> "ANTHROPIC", model |-> "claude-sonnet"]} :
         \E maxFallbacks \in (0 - 1)..MaxFallbacksArg :
           GenerateFallbackList(rankedScores, primary, maxFallbacks)
  \/ Return

RouterSpec == RouterInit /\ [][RouterNext]_vars

(***************************************************************************)
(* The scorer's caller: normalizeWeights, scoreModel and rankModels are    *)
(* exported and are called here on their own, with weights, provider       *)
(* health and task classifications that the router never hands them, and   *)
(* so is inferModelCapabilities, with the defaults a caller may give.      *)
(* Weights are non-negative, as ModelScoringWeights documents them.        *)
(***************************************************************************)
ScoredModels == {Llama, Claude, Gpt, DeepSeek, Llava, Qwq, Opus}

RankedCatalogs ==
  { <<Llama, Claude>>,
    <<Llama, Claude, Gpt>>,
    <<Qwq, Gpt, Opus>>,
    <<Opus, Gpt, Qwq>>,
    <<Gpt, Opus, Qwq, Llama>>,
    <<Claude, Llama, ClaudeUpper, Gpt, DeepSeek, Llava>> }

WeightSets ==
  { DEFAULT_SCORING_WEIGHTS,
    [capabilityMatch |-> 0, costEfficiency |-> 0, performance |-> 0, availability |-> 0, den |-> 1],
    [capabilityMatch |-> 1, costEfficiency |-> 1, performance |-> 1, availability |-> 1, den |-> 1],
    [capabilityMatch |-> 4, costEfficiency |-> 2, performance |-> 1, availability |-> 1, den |-> 2],
    [capabilityMatch |-> 801, costEfficiency |-> 600, performance |-> 400, availability |-> 200,
     den |-> 2000],
    [capabilityMatch |-> 799, costEfficiency |-> 600, performance |-> 400, availability |-> 200,
     den |-> 2000],
    [capabilityMatch |-> 11, costEfficiency |-> 1, performance |-> 0, availability |-> 988,
     den |-> 1000],
    [capabilityMatch |-> 0, costEfficiency |-> 0, performance |-> 0, availability |-> 5,
     den |-> 10] }

\* providerHealth in units of 1/SubScoreOne: below 0, 0, a half, 1, above 1.
HealthValues == {0 - 600, 0, 600, 1200, 1800}

ScoredTasks ==
  LET classified ==
        { classifyTask(prompt, hasImages, hints) :
            prompt \in { [words |-> <<"fix", "the", "bug">>, filler |-> 0],
                         [words |-> <<"prove", "the", "theorem", "step", "by", "step">>,
                          filler |-> 150] },
            hasImages \in BOOLEAN,
            hints \in { NoHints, ReasoningHint,
                        [NoHints EXCEPT !.taskType = "coding", !.requiresReasoning = "true"] } }
  IN classified
       \cup { [type |-> task.type, complexity |-> task.complexity,
               requiresVision |-> task.requiresVision,
               requiresReasoning |-> task.requiresReasoning,
               estimatedContextTokens |-> 160000, confidence |-> task.confidence] :
                task \in {t \in classified : t.requiresVision} }

NormalizeWeights(weights) ==
  /\ pc = "idle"
  /\ call' = [op |-> "normalizeWeights", weights |-> weights]
  /\ result' = [kind |-> "weights", weights |-> normalizeWeights(weights)]
  /\ pc' = "returned"
  /\ UNCHANGED <<router, catalogVars, metricsVars>>

ScoreModel(model, task, weights, hasHealth, providerHealth) ==
  /\ pc = "idle"
  /\ call' = [op |-> "scoreModel", model |-> model, taskClassification |-> task,
              weights |-> weights, hasHealth |-> hasHealth, providerHealth |-> providerHealth]
  /\ result' = [kind |-> "score",
                score |-> scoreModel(model, task, weights, hasHealth, providerHealth)]
  /\ pc' = "returned"
  /\ UNCHANGED <<router, catalogVars, metricsVars>>

RankModels(models, task, weights) ==
  /\ pc = "idle"
  /\ call' = [op |-> "rankModels", models |-> models, task |-> task, weights |-> weights]
  /\ result' = [kind |-> "ranking", scores |-> rankModels(models, task, weights).scores]
  /\ pc' = "returned"
  /\ UNCHANGED <<router, catalogVars, metricsVars>>

\* The entries whose capabilities are inferred on their own: with and without
\* a declared profile, a context window, a size in the name.
CapabilityInputs ==
  { Llama, DeepSeek, Llava,
    BareEntry("ollama", "qwen-coder-32k", "Qwen Coder"),
    [BareEntry("ollama", "qwen-coder-32k", "Qwen Coder") EXCEPT !.contextWindow = 4096],
    [DeepSeek EXCEPT !.contextWindow = 64000, !.costTenths = 0],
    [Llava EXCEPT !.contextWindow = 0 - 1],
    DeclaredEntry("openai", "gpt-4o", "GPT-4o", {"chat", "general"}, "simple", FALSE, FALSE, 0,
                  "medium") }

CapabilityDefaults ==
  {NoDefaults}
    \cup { [given |-> {"defaultContextWindow"}, defaultContextWindow |-> window,
            defaultCostTier |-> "medium"] : window \in {16384, 0, 0 - 1} }
    \cup { [given |-> {"defaultCostTier"}, defaultContextWindow |-> 0, defaultCostTier |-> tier] :
             tier \in {"free", "high"} }
    \cup { [given |-> {"defaultContextWindow", "defaultCostTier"},
            defaultContextWindow |-> 4096, defaultCostTier |-> "low"] }

InferModelCapabilities(model, defaults) ==
  /\ pc = "idle"
  /\ call' = [op |-> "inferModelCapabilities", model |-> model, defaults |-> defaults]
  /\ result' = [kind |-> "capabilities", capabilities |-> inferModelCapabilities(model, defaults)]
  /\ pc' = "returned"
  /\ UNCHANGED <<router, catalogVars, metricsVars>>

ScorerInit ==
  /\ CatalogInit
  /\ RouterIdle

ScorerNext ==
  \/ \E weights \in WeightSets : NormalizeWeights(weights)
  \/ \E model \in ScoredModels, task \in ScoredTasks, weights \in WeightSets :
       \/ ScoreModel(model, task, weights, FALSE, 0)
       \/ \E providerHealth \in HealthValues : ScoreModel(model, task, weights, TRUE, providerHealth)
  \/ \E models \in RankedCatalogs, task \in ScoredTasks, weights \in WeightSets :
       RankModels(models, task, weights)
  \/ \E model \in CapabilityInputs, defaults \in CapabilityDefaults :
       InferModelCapabilities(model, defaults)
  \/ Return

ScorerSpec == ScorerInit /\ [][ScorerNext]_vars

(***************************************************************************)
(* The classifier's caller: classifyTask is exported and is called here on *)
(* its own, with every combination of hints.                               *)
(***************************************************************************)
\* The router's prompts, and one that matches two coding and two reasoning
\* patterns.
ClassifiedPrompts ==
  Prompts \cup { [words |-> <<"fix", "python", "prove", "formula">>, filler |-> 0] }

ClassifierHints ==
  [taskType : {"unset", "coding", "reasoning", "general"},
   complexity : {"unset", "simple", "complex"},
   requiresVision : {"unset", "true", "false"},
   requiresReasoning : {"unset", "true", "false"}]

ClassifyTask(prompt, hasImages, hints) ==
  /\ pc = "idle"
  /\ call' = [op |-> "classifyTask", prompt |-> prompt, hasImages |-> hasImages, hints |-> hints]
  /\ result' = [kind |-> "classification",
                classification |-> classifyTask(prompt, hasImages, hints)]
  /\ pc' = "returned"
  /\ UNCHANGED <<router, catalogVars, metricsVars>>

ClassifierInit ==
  /\ CatalogInit
  /\ RouterIdle

ClassifierNext ==
  \/ \E prompt \in ClassifiedPrompts, hasImages \in BOOLEAN, hints \in ClassifierHints :
       ClassifyTask(prompt, hasImages, hints)
  \/ Return

ClassifierSpec == ClassifierInit /\ [][ClassifierNext]_vars

(***************************************************************************)
(* The metrics' caller.  It holds every instance it was ever given, so it  *)
(* may record on an instance that the process-wide accessor has dropped.   *)
(* The record operations return nothing; the accessor's answer is taken    *)
(* with MetricsReturn.                                                     *)
(***************************************************************************)
\* The decisions recorded: scores are in hundredths.
MetricsDecisions ==
  { [strategy |-> "balanced", type |-> "coding", provider |-> "ollama", model |-> "llama3.2",
     totalScore |-> 75],
    [strategy |-> "cost-optimized", type |-> "reasoning", provider |-> "anthropic",
     model |-> "claude-sonnet-4", totalScore |-> 90] }

\* map[key] = (map[key] ?? 0) + 1
Increment(map, key) ==
  [k \in DOMAIN map \cup {key} |->
     IF k = key THEN (IF key \in DOMAIN map THEN map[key] ELSE 0) + 1 ELSE map[k]]

\* The selection counters after one selection of provider/model with the
\* score: avgScore is totalScore / count.
Selected(m, provider, model, score) ==
  LET key == provider \o "/" \o model
      before == IF key \in DOMAIN m.modelSelections THEN m.modelSelections[key]
                ELSE [count |-> 0, totalScore |-> 0]
  IN [m EXCEPT !.selectionsByProvider = Increment(m.selectionsByProvider, provider),
               !.modelSelections =
                 [k \in DOMAIN m.modelSelections \cup {key} |->
                    IF k = key THEN [count |-> before.count + 1,
                                     totalScore |-> before.totalScore + score]
                    ELSE m.modelSelections[k]]]

RecordCalls ==
  LET Calls(i) == recorded[i].others + recorded[i].decisions["coding"]
                    + recorded[i].decisions["reasoning"]
  IN Calls(1) + Calls(2)

\* A record call on a constructed instance.
CanRecord(i) ==
  /\ pc = "idle"
  /\ metrics[i].constructed
  /\ RecordCalls < MaxRecords

OtherRecorded(i) == [recorded EXCEPT ![i].others = @ + 1]

MetricsFrame == UNCHANGED <<router, catalogVars, pc, call, result, globalMetrics, issued>>

CreateRoutingMetrics(i) ==
  /\ pc = "idle"
  /\ ~metrics[i].constructed
  /\ metrics' = [metrics EXCEPT ![i] = NewMetrics]
  /\ recorded' = [recorded EXCEPT ![i] = NoRecords]
  /\ MetricsFrame

RecordDecision(i, decision) ==
  /\ CanRecord(i)
  /\ metrics' =
       [metrics EXCEPT ![i] =
          Selected([@ EXCEPT !.totalDecisions = @ + 1,
                             !.decisionsByTaskType = Increment(@, decision.type),
                             !.decisionsByStrategy = Increment(@, decision.strategy)],
                   decision.provider, decision.model, decision.totalScore)]
  /\ recorded' = [recorded EXCEPT ![i].decisions[decision.type] = @ + 1]
  /\ MetricsFrame

RecordTaskTypeMutantCountsDecision(i, taskType) ==
  /\ CanRecord(i)
  /\ metrics' = [metrics EXCEPT ![i].decisionsByTaskType = Increment(@, taskType)]
  /\ recorded' = OtherRecorded(i)
  /\ MetricsFrame

\* recordTaskType only emits its event.
RecordTaskType(i, taskType) ==
  /\ CanRecord(i)
  /\ recorded' = OtherRecorded(i)
  /\ UNCHANGED metrics
  /\ MetricsFrame

RecordModelSelection(i, provider, model, score) ==
  /\ CanRecord(i)
  /\ metrics' = [metrics EXCEPT ![i] = Selected(@, provider, model, score)]
  /\ recorded' = OtherRecorded(i)
  /\ MetricsFrame

RecordFallback(i) ==
  /\ CanRecord(i)
  /\ metrics' = [metrics EXCEPT ![i].fallbacksUsed = @ + 1]
  /\ recorded' = OtherRecorded(i)
  /\ MetricsFrame

RecordOverride(i) ==
  /\ CanRecord(i)
  /\ metrics' = [metrics EXCEPT ![i].overridesUsed = @ + 1]
  /\ recorded' = OtherRecorded(i)
  /\ MetricsFrame

RecordError(i) ==
  /\ CanRecord(i)
  /\ metrics' = [metrics EXCEPT ![i].errors = @ + 1]
  /\ recorded' = OtherRecorded(i)
  /\ MetricsFrame

\* metrics.reset()
ResetMetrics(i) ==
  /\ pc = "idle"
  /\ metrics[i].constructed
  /\ metrics' = [metrics EXCEPT ![i] = NewMetrics]
  /\ recorded' = [recorded EXCEPT ![i] = NoRecords]
  /\ MetricsFrame

\* getGlobalRoutingMetrics(): the instance is constructed on the first call
\* and cached.
GetGlobalRoutingMetrics ==
  /\ pc = "idle"
  /\ IF globalMetrics # 0
     THEN /\ result' = [kind |-> "metrics", instance |-> globalMetrics,
                        snapshot |-> metrics[globalMetrics]]
          /\ UNCHANGED <<metrics, globalMetrics, recorded>>
     ELSE \E i \in MetricsIds :
            /\ ~metrics[i].constructed
            /\ metrics' = [metrics EXCEPT ![i] = NewMetrics]
            /\ recorded' = [recorded EXCEPT ![i] = NoRecords]
            /\ globalMetrics' = i
            /\ result' = [kind |-> "metrics", instance |-> i, snapshot |-> NewMetrics]
  /\ call' = [op |-> "getGlobalRoutingMetrics"]
  /\ pc' = "returned"
  /\ UNCHANGED <<router, catalogVars, issued>>

ResetGlobalMutantKeepsInstance ==
  /\ pc = "idle"
  /\ issued' = 0
  /\ UNCHANGED <<router, catalogVars, pc, call, result, metrics, globalMetrics, recorded>>

\* resetGlobalRoutingMetrics(): the cached instance is dropped.
ResetGlobalRoutingMetrics ==
  /\ pc = "idle"
  /\ globalMetrics' = 0
  /\ issued' = 0
  /\ UNCHANGED <<router, catalogVars, pc, call, result, metrics, recorded>>

\* The caller takes the instance the accessor answered.
MetricsReturn ==
  /\ pc = "returned"
  /\ issued' = result.instance
  /\ pc' = "idle"
  /\ call' = NoCall
  /\ result' = NoResult
  /\ UNCHANGED <<router, catalogVars, metrics, globalMetrics, recorded>>

MetricsInit ==
  /\ CatalogInit
  /\ RouterIdle

MetricsNext ==
  \/ \E i \in MetricsIds : CreateRoutingMetrics(i)
  \/ \E i \in MetricsIds, decision \in MetricsDecisions : RecordDecision(i, decision)
  \/ \E i \in MetricsIds, taskType \in MetricTaskTypes : RecordTaskType(i, taskType)
  \/ \E i \in MetricsIds, decision \in MetricsDecisions :
       RecordModelSelection(i, decision.provider, decision.model, decision.totalScore)
  \/ \E i \in MetricsIds : RecordFallback(i)
  \/ \E i \in MetricsIds : RecordOverride(i)
  \/ \E i \in MetricsIds : RecordError(i)
  \/ \E i \in MetricsIds : ResetMetrics(i)
  \/ GetGlobalRoutingMetrics
  \/ ResetGlobalRoutingMetrics
  \/ MetricsReturn

MetricsSpec == MetricsInit /\ [][MetricsNext]_vars

(***************************************************************************)
(* Claims about the task router.                                           *)
(***************************************************************************)
Returned(op) == pc = "returned" /\ call.op = op

\* The call just answered was made with a non-blank override.
OverrideCall ==
  /\ pc = "returned"
  /\ call.op \in {"selectModelForTask", "routeModelForTask"}
  /\ HasOverride(call.options.overrideModel)

\* The primary of the answer of either selectModelForTask or routeModelForTask.
ResultPrimary ==
  IF call.op = "selectModelForTask" THEN result.primary
  ELSE [provider |-> result.provider, model |-> result.model]

\* C6: whenever overrideModel is non-blank, selectModelForTask and
\* routeModelForTask return as primary the override parsed at its first slash
\* (provider before it, model after it, provider 'anthropic' without a slash),
\* with total score and the four sub-scores 1.0 and reasoning strings that name
\* the manual override, whatever the routing configuration, the catalog and
\* allowedProviders are.
C6_OverrideReturnsParsedOverride ==
  OverrideCall =>
    LET text == TrimText(call.options.overrideModel)
        slashes == {i \in 1..Len(text) : text[i] = "/"}
        score == result.decision.selectedScore
    IN /\ result.kind = (IF call.op = "selectModelForTask" THEN "result" ELSE "override")
       /\ IF slashes = {}
          THEN ResultPrimary = [provider |-> "anthropic", model |-> Concat(text)]
          ELSE \E i \in slashes :
                 /\ \A j \in slashes : i <= j
                 /\ ResultPrimary.provider = Concat(TrimText(SubSeq(text, 1, i - 1)))
                 /\ ResultPrimary.model = Concat(TrimText(SubSeq(text, i + 1, Len(text))))
       /\ score.provider = ResultPrimary.provider
       /\ score.model = ResultPrimary.model
       /\ score.totalScore = score.den
       /\ score.breakdown.capability = SubScoreOne
       /\ score.breakdown.cost = SubScoreOne
       /\ score.breakdown.performance = SubScoreOne
       /\ score.breakdown.availability = SubScoreOne
       /\ score.reasoning
            = "Manual override: " \o ResultPrimary.provider \o "/" \o ResultPrimary.model
       /\ result.decision.reasoning
            = "Manual model override: " \o ResultPrimary.provider \o "/" \o ResultPrimary.model
       /\ result.decision.allRankedScores = <<>>

\* An override with two slashes answered by routeModelForTask for a router
\* whose routing is disabled, whose catalog is not empty and has no such model.
C6_Witness ==
  /\ OverrideCall
  /\ call.op = "routeModelForTask"
  /\ call.options.overrideModel = <<"openrouter", "/", "meta", "/", "llama">>
  /\ ~router.config.enabled
  /\ Len(router.catalog) > 0
  /\ result.provider = "openrouter"
  /\ result.model = "meta/llama"

\* selectModelForTask was called without an override on a router whose routing
\* is disabled.
DisabledCall ==
  /\ Returned("selectModelForTask")
  /\ ~HasOverride(call.options.overrideModel)
  /\ ~router.config.enabled

\* C7: with no override and routing disabled, selectModelForTask returns null
\* and runs no stage of the pipeline (no classification, filtering or ranking),
\* whatever the catalog, the rules and the prompt are.
C7_DisabledReturnsNullWithoutWork ==
  DisabledCall => (result.kind = "null" /\ result.steps = <<>> /\ result.raised = "none")

\* A disabled router with rules and a catalog (a malformed entry included),
\* asked with a white-space override and a prompt that would classify.
C7_Witness ==
  /\ DisabledCall
  /\ Len(router.config.taskRules) > 0
  /\ \E i \in 1..Len(router.catalog) : router.catalog[i].defect # "none"
  /\ call.options.overrideModel = <<" ">>
  /\ Len(call.options.prompt.words) > 0
  /\ result.kind = "null"

\* C8: selectModelForTask never raises to its caller: an error thrown in a
\* stage of the pipeline is caught and the call returns null.
C8_SelectNeverRaises ==
  Returned("selectModelForTask") =>
    /\ result.kind # "throw"
    /\ (result.raised # "none" => result.kind = "null")

\* Scoring a malformed catalog entry raised during ranking, and the call
\* returned null.
C8_Witness ==
  /\ Returned("selectModelForTask")
  /\ result.raised = "rank"
  /\ result.kind = "null"

\* The text of the identity of a reference, lower-cased.
RefKey(ref) == ModelKey(ref.provider, ref.model)

\* C9: in every routing result the fallback list has no entry whose
\* provider/model identity equals the primary's, compared case-insensitively,
\* and is no longer than the maximum (3 by default); this for the router's
\* result, for routeModelForTask's and for the exported generateFallbackList.
C9_FallbacksExcludePrimaryWithinMax ==
  /\ (Returned("selectModelForTask") /\ result.kind = "result") =>
       /\ Len(result.fallbacks) <= DefaultMaxFallbacks
       /\ \A i \in 1..Len(result.fallbacks) : RefKey(result.fallbacks[i]) # RefKey(result.primary)
  /\ (Returned("routeModelForTask") /\ result.kind = "routed") =>
       /\ Len(result.fallbacks) <= DefaultMaxFallbacks
       /\ \A i \in 1..Len(result.fallbacks) :
            toLowerCase(result.fallbacks[i]) # ModelKey(result.provider, result.model)
  /\ Returned("generateFallbackList") =>
       /\ Len(result.refs) <= (IF call.maxFallbacks < 0 THEN DefaultMaxFallbacks
                               ELSE call.maxFallbacks)
       /\ Len(result.fallbacks) = Len(result.refs)
       /\ \A i \in 1..Len(result.refs) : RefKey(result.refs[i]) # RefKey(call.primary)

\* The ranking holds the primary's identity twice, in two cases, and more
\* entries than the maximum; three fallbacks were returned.
C9_Witness ==
  /\ Returned("selectModelForTask")
  /\ result.kind = "result"
  /\ Cardinality({i \in 1..Len(result.decision.allRankedScores) :
                    RefKey(result.decision.allRankedScores[i]) = RefKey(result.primary)}) = 2
  /\ Len(result.decision.allRankedScores) > DefaultMaxFallbacks + 2
  /\ Len(result.fallbacks) = DefaultMaxFallbacks

\* C10: with routing enabled, no override, a non-empty allowedProviders and
\* a catalog that has an entry of an allowed provider, the primary's provider
\* is one of the allowed providers, whatever the task rules are.
C10_PrimaryIsOfAllowedProvider ==
  ( /\ Returned("selectModelForTask")
    /\ ~HasOverride(call.options.overrideModel)
    /\ router.config.enabled
    /\ Len(call.options.allowedProviders) > 0
    /\ \E i \in 1..Len(router.catalog) :
         toLowerCase(router.catalog[i].provider) \in LowerSet(call.options.allowedProviders)
    /\ \A i \in 1..Len(router.catalog) :
         router.catalog[i].defect = "none" /\ router.catalog[i].provider # Undefined
    /\ result.kind = "result" )
  => toLowerCase(result.primary.provider) \in LowerSet(call.options.allowedProviders)

\* selectModelForTask answered with a routed (non-override) result.
RoutedResult ==
  /\ Returned("selectModelForTask")
  /\ result.kind = "result"
  /\ ~HasOverride(call.options.overrideModel)

\* The rules of the router that match the classification of the result: same
\* task type, and the same complexity when the rule names one.
MatchingRuleIndexes ==
  {k \in 1..Len(router.config.taskRules) :
     /\ router.config.taskRules[k].taskType = result.decision.taskClassification.type
     /\ router.config.taskRules[k].complexity
          \in {"unset", result.decision.taskClassification.complexity}}

\* The lower-cased providers excluded by some matching rule.
ExcludedProviders ==
  UNION {LowerSet(router.config.taskRules[k].excludeProviders) : k \in MatchingRuleIndexes}

\* The catalog has an entry of a provider that no matching rule excludes.
HasNonExcludedEntry ==
  \E i \in 1..Len(router.catalog) : toLowerCase(router.catalog[i].provider) \notin ExcludedProviders

\* C11 as stated: when a matching task rule excludes provider P and the
\* catalog has an entry of a provider that is not excluded, the primary is not
\* an entry of provider P.
C11_PrimaryNotOfExcludedProvider ==
  (RoutedResult /\ HasNonExcludedEntry)
    => toLowerCase(result.primary.provider) \notin ExcludedProviders

\* C11 amended: the primary is not an entry of an excluded provider unless the
\* matching rules left no entry and the whole catalog was ranked instead.
C11_PrimaryNotOfExcludedProviderUnlessRestored ==
  (RoutedResult /\ HasNonExcludedEntry)
    => \/ toLowerCase(result.primary.provider) \notin ExcludedProviders
       \/ Len(result.decision.allRankedScores) = Len(router.catalog)

\* A matching rule excludes ollama, the catalog has ollama entries and others,
\* the ranking lost the excluded entries and the primary is not ollama's.
C11_Witness ==
  /\ RoutedResult
  /\ "ollama" \in ExcludedProviders
  /\ \E i \in 1..Len(router.catalog) : toLowerCase(router.catalog[i].provider) = "ollama"
  /\ HasNonExcludedEntry
  /\ Len(result.decision.allRankedScores) < Len(router.catalog)
  /\ toLowerCase(result.primary.provider) # "ollama"

\* selectModelForTask was called without an override on an enabled router.
EnabledCall ==
  /\ Returned("selectModelForTask")
  /\ ~HasOverride(call.options.overrideModel)
  /\ router.config.enabled

\* Every entry of the catalog has a provider and, when it declares a
\* capability profile, a complete one.
WellFormedCatalog ==
  \A i \in 1..Len(router.catalog) :
    router.catalog[i].defect = "none" /\ router.catalog[i].provider # Undefined

\* C12: with routing enabled and no override, a non-empty catalog of
\* well-formed entries always yields a result with a non-empty ranking, for
\* every prompt, allow-list and rule set; an empty catalog yields null.
C12_NonEmptyCatalogAlwaysRouted ==
  EnabledCall =>
    /\ (router.catalog = <<>> => result.kind = "null")
    /\ ((router.catalog # <<>> /\ WellFormedCatalog) =>
          (result.kind = "result" /\ Len(result.decision.allRankedScores) > 0))

\* The allow-list matches no entry and a matching rule demands reasoning from
\* a catalog that has none: both restrictions were undone and a result came back.
C12_Witness ==
  /\ EnabledCall
  /\ router.catalog # <<>>
  /\ WellFormedCatalog
  /\ call.options.allowedProviders = <<"google">>
  /\ \A i \in 1..Len(router.catalog) : ~getModelCapabilities(router.catalog[i]).supportsReasoning
  /\ result.kind = "result"
  /\ \E k \in MatchingRuleIndexes : router.config.taskRules[k].requireReasoning = "true"
  /\ Len(result.decision.allRankedScores) = Len(router.catalog)

\* routeModelForTask was called without an override.
RouteCall ==
  /\ Returned("routeModelForTask")
  /\ ~HasOverride(call.options.overrideModel)

\* The configuration handed to routeModelForTask enables routing.
RouteEnabled ==
  router.userConfig.present /\ "enabled" \in router.userConfig.given /\ router.userConfig.enabled

\* The configuration handed to routeModelForTask asks for manual selection.
RouteManualSelection ==
  /\ router.userConfig.present
  /\ "fallbackBehavior" \in router.userConfig.given
  /\ router.userConfig.fallbackBehavior = "manual-selection"

\* C13: routeModelForTask without an override, when routing is disabled or the
\* router returned null, answers with the sentinel manualSelectionRequired=true
\* (no provider, model, fallbacks or decision) if fallbackBehavior is
\* manual-selection, and otherwise with the default model reference and no
\* decision; a routed result is returned only when routing is enabled and the
\* router produced a decision.
C13_RouteFallbackBehavior ==
  RouteCall =>
    /\ (~RouteEnabled \/ result.inner.kind = "null") =>
         IF RouteManualSelection
         THEN /\ result.kind = "manual"
              /\ result.manualSelectionRequired
              /\ DOMAIN result \cap {"provider", "model", "fallbacks", "decision"} = {}
         ELSE /\ result.kind = "default"
              /\ result.provider = DefaultModelRef.provider
              /\ result.model = DefaultModelRef.model
              /\ DOMAIN result \cap {"fallbacks", "decision", "manualSelectionRequired"} = {}
    /\ result.kind = "routed" =>
         /\ RouteEnabled
         /\ result.inner.kind = "result"
         /\ result.decision = result.inner.decision
         /\ result.provider = result.inner.primary.provider
         /\ result.model = result.inner.primary.model

\* Routing is enabled, the router caught an error and returned null, and the
\* configuration asks for manual selection: the sentinel came back.
C13_Witness ==
  /\ RouteCall
  /\ RouteEnabled
  /\ RouteManualSelection
  /\ result.inner.kind = "null"
  /\ result.inner.raised # "none"
  /\ result.kind = "manual"

\* routeModelForTask returned a routed result and was given agentDir.
CooldownCall ==
  /\ RouteCall
  /\ result.kind = "routed"
  /\ call.options.agentDir

\* The fallback's provider has no profile in the store, or one that is not in
\* cooldown.
FallbackAvailable(store, fallback) ==
  \/ ~\E pr \in store.profiles : pr.provider = fallback.provider
  \/ \E pr \in store.profiles : pr.provider = fallback.provider /\ ~pr.inCooldown

\* C14: when the credential store raises, routeModelForTask keeps all the
\* router's fallbacks unchanged; otherwise its fallbacks are, in order, exactly
\* the router's fallbacks whose provider has no profile or has a profile not
\* in cooldown.  The primary is the router's primary in both cases.
C14_CooldownFilterKeepsAvailable ==
  CooldownCall =>
    LET store == call.options.store
        routerFallbacks == result.inner.fallbacks
        kept == IF store.throws THEN 1..Len(routerFallbacks)
                ELSE {i \in 1..Len(routerFallbacks) : FallbackAvailable(store, routerFallbacks[i])}
    IN /\ Len(result.fallbacks) = Cardinality(kept)
       /\ \A i \in kept :
            result.fallbacks[Cardinality({j \in kept : j <= i})]
              = routerFallbacks[i].provider \o "/" \o routerFallbacks[i].model
       /\ result.provider = result.inner.primary.provider
       /\ result.model = result.inner.primary.model

\* The store answered, a fallback whose provider has all its profiles in
\* cooldown was dropped, and a later fallback was kept, although the primary's
\* own provider is in cooldown.
C14_Witness ==
  /\ CooldownCall
  /\ ~call.options.store.throws
  /\ 0 < Len(result.fallbacks)
  /\ Len(result.fallbacks) < Len(result.inner.fallbacks)
  /\ ~FallbackAvailable(call.options.store, result.inner.primary)

(***************************************************************************)
(* Claims about the scorer.                                                *)
(***************************************************************************)
\* |sum - 1| <= 1e-9 for the weight set: den is below 1e9 in every weight
\* set, so den \div 1000000000 is the whole part of den * 1e-9.
SumsToOne(weights) == Abs(WeightSum(weights) - weights.den) <= weights.den \div 1000000000

\* C15: for a weight set whose sum is strictly positive normalizeWeights
\* returns weights that sum to 1.0 within 1e-9; for a weight set whose sum is
\* 0 it returns the default weights.
C15_NormalizedWeightsSumToOne ==
  Returned("normalizeWeights") =>
    /\ WeightSum(call.weights) > 0 => SumsToOne(result.weights)
    /\ WeightSum(call.weights) = 0 => result.weights = DEFAULT_SCORING_WEIGHTS

InUnitInterval(subScore) == 0 <= subScore /\ subScore <= SubScoreOne

\* C16: for every backend, task classification, weight set and provider
\* health, scoreModel returns four sub-scores within [0,1] and a total score
\* within [0,1].
C16_ScoresWithinUnitInterval ==
  Returned("scoreModel") =>
    /\ InUnitInterval(result.score.breakdown.capability)
    /\ InUnitInterval(result.score.breakdown.cost)
    /\ InUnitInterval(result.score.breakdown.performance)
    /\ InUnitInterval(result.score.breakdown.availability)
    /\ 0 <= result.score.totalScore
    /\ result.score.totalScore <= result.score.den

\* rankModels returned the ranking of two or more backends.
RankingCall == Returned("rankModels") /\ Len(call.models) >= 2

\* C17: the list returned by rankModels for two or more backends is sorted
\* non-increasing by total score: in every adjacent pair the earlier entry's
\* total is greater than or equal to the later entry's.
C17_RankingNonIncreasingByTotal ==
  RankingCall =>
    \A i \in 1..(Len(result.scores) - 1) :
      result.scores[i].totalScore >= result.scores[i + 1].totalScore

\* The totals of the two scores differ by at most 0.001.
WithinEpsilon(a, b) == Abs(a.totalScore - b.totalScore) <= a.den \div 1000

\* C18: in the list returned by rankModels every pair of entries, adjacent or
\* not, is ordered by higher total first when the totals differ by more than
\* 0.001, and otherwise by higher cost sub-score first, then by higher
\* performance sub-score.
C18_EveryPairOrderedByComparator ==
  Returned("rankModels") =>
    \A i \in 1..Len(result.scores) : \A j \in (i + 1)..Len(result.scores) :
      LET a == result.scores[i]
          b == result.scores[j]
      IN IF WithinEpsilon(a, b)
         THEN \/ a.breakdown.cost > b.breakdown.cost
              \/ /\ a.breakdown.cost = b.breakdown.cost
                 /\ a.breakdown.performance >= b.breakdown.performance
         ELSE a.totalScore > b.totalScore

(***************************************************************************)
(* Claims about the provider preference and the reasoning rule.            *)
(***************************************************************************)
\* The decision's reasoning text names this provider preference.
ReportsPreference(preference) ==
  result.decision.reasoning
    = "Task-based routing: "
        \o explainScore(result.primary.provider, result.primary.model,
                        result.decision.selectedScore.breakdown,
                        result.decision.taskClassification.type)
        \o " | Strategy: " \o router.config.strategy
        \o " | Provider preference: " \o preference

\* The total of the score is the weighted sum of its sub-scores under the
\* router's weights: no boost was applied to it.
Unboosted(score) ==
  LET weights == normalizeWeights(applyRoutingStrategy(router.config, router.config.scoringWeights))
  IN score.totalScore
       = BoostScale * (score.breakdown.capability * weights.capabilityMatch
                       + score.breakdown.cost * weights.costEfficiency
                       + score.breakdown.performance * weights.performance
                       + score.breakdown.availability * weights.availability)

NoScoreChanged ==
  \A i \in 1..Len(result.decision.allRankedScores) : Unboosted(result.decision.allRankedScores[i])

TaskPrefersCloud ==
  \/ result.decision.taskClassification.complexity = "complex"
  \/ result.decision.taskClassification.requiresReasoning

\* C19: a routing decision has exactly one provider preference: 'cloud'
\* exactly when the task is complex or requires reasoning and the cloud
\* providers are not empty; 'local' exactly when preferLocal is set, the task
\* is simple and does not require reasoning, and the local providers are not
\* empty; otherwise 'none', and then no score is changed.  A task that prefers
\* cloud gets no local boost even when there are no cloud providers.
C19_ProviderPreferenceChoice ==
  RoutedResult =>
    LET task == result.decision.taskClassification
        cloud == TaskPrefersCloud /\ Len(router.config.cloudProviders) > 0
        local == /\ router.config.preferLocal
                 /\ task.complexity = "simple"
                 /\ ~task.requiresReasoning
                 /\ Len(router.config.localProviders) > 0
    IN /\ ReportsPreference("cloud") <=> cloud
       /\ ReportsPreference("local") <=> local
       /\ ReportsPreference("none") <=> (~cloud /\ ~local)
       /\ ~(cloud /\ local)
       /\ ReportsPreference("none") => NoScoreChanged
       /\ (TaskPrefersCloud /\ Len(router.config.cloudProviders) = 0) =>
            ReportsPreference("none") /\ NoScoreChanged

\* A simple task that requires reasoning was routed by a router that prefers
\* local providers, has local providers and has no cloud provider.
C19_Witness ==
  /\ RoutedResult
  /\ result.decision.taskClassification.complexity = "simple"
  /\ result.decision.taskClassification.requiresReasoning
  /\ router.config.preferLocal
  /\ Len(router.config.localProviders) > 0
  /\ Len(router.config.cloudProviders) = 0
  /\ ReportsPreference("none")

\* Some rule matching the classified task sets requireReasoning to true.
RuleRequiresReasoning ==
  \E k \in MatchingRuleIndexes : router.config.taskRules[k].requireReasoning = "true"

SupportsReasoning(entry) == getModelCapabilities(entry).supportsReasoning

HasReasoningEntry == \E i \in 1..Len(router.catalog) : SupportsReasoning(router.catalog[i])

\* The catalog entry selected as primary supports reasoning.
PrimarySupportsReasoning ==
  \E i \in 1..Len(router.catalog) :
    /\ router.catalog[i].provider = result.primary.provider
    /\ router.catalog[i].id = result.primary.model
    /\ SupportsReasoning(router.catalog[i])

\* C20 as stated: when a rule matching the classified task sets
\* requireReasoning to true and the catalog has a reasoning-capable entry, the
\* primary supports reasoning.
C20_PrimarySupportsReasoning ==
  (RoutedResult /\ RuleRequiresReasoning /\ HasReasoningEntry) => PrimarySupportsReasoning

\* C20 amended: the primary supports reasoning unless the matching rules left
\* no entry and the whole catalog was ranked instead.
C20_PrimarySupportsReasoningUnlessRestored ==
  (RoutedResult /\ RuleRequiresReasoning /\ HasReasoningEntry)
    => \/ PrimarySupportsReasoning
       \/ Len(result.decision.allRankedScores) = Len(router.catalog)

\* A task that does not itself require reasoning met a matching rule that
\* does, the rule dropped part of the catalog, and a reasoning-capable primary
\* was selected although a cheaper entry without reasoning is in the catalog.
C20_Witness ==
  /\ RoutedResult
  /\ RuleRequiresReasoning
  /\ ~result.decision.taskClassification.requiresReasoning
  /\ Len(result.decision.allRankedScores) < Len(router.catalog)
  /\ PrimarySupportsReasoning
  /\ \E i \in 1..Len(router.catalog) :
       /\ ~SupportsReasoning(router.catalog[i])
       /\ scoreCostEfficiency(router.catalog[i])
            > result.decision.selectedScore.breakdown.cost

(***************************************************************************)
(* Claims about the classifier.                                            *)
(***************************************************************************)
\* C21: classifyTask called with hasImages = true returns requiresVision =
\* true for every prompt, with or without a task-type or complexity hint,
\* when the hints do not set requiresVision.
C21_ImagesRequireVision ==
  (Returned("classifyTask") /\ call.hasImages /\ call.hints.requiresVision = "unset")
    => result.classification.requiresVision

\* A prompt that matches no vision pattern was classified with images under a
\* task-type hint and a complexity hint, and the classification requires vision.
C21_Witness ==
  /\ Returned("classifyTask")
  /\ call.hasImages
  /\ call.hints.requiresVision = "unset"
  /\ call.hints.taskType = "coding"
  /\ call.hints.complexity = "simple"
  /\ PatternScore("vision", call.prompt, FALSE) = 0
  /\ result.classification.type # "vision"
  /\ result.classification.requiresVision

\* C22: for every prompt and every hint set classifyTask returns
\* requiresReasoning equal to the hinted value when there is one, and
\* otherwise equal to: the returned type is reasoning, or the returned
\* complexity is complex, or more than one reasoning pattern matches.
C22_RequiresReasoningRule ==
  Returned("classifyTask") =>
    result.classification.requiresReasoning
      = IF call.hints.requiresReasoning # "unset" THEN call.hints.requiresReasoning = "true"
        ELSE \/ result.classification.type = "reasoning"
             \/ result.classification.complexity = "complex"
             \/ PatternScore("reasoning", call.prompt, call.hasImages) > 1

(***************************************************************************)
(* Claims about the routing metrics.                                       *)
(***************************************************************************)
DecisionsRecorded(i) == recorded[i].decisions["coding"] + recorded[i].decisions["reasoning"]

CountsDecisionsOfType(i, t) ==
  IF recorded[i].decisions[t] = 0
  THEN t \notin DOMAIN metrics[i].decisionsByTaskType
  ELSE /\ t \in DOMAIN metrics[i].decisionsByTaskType
       /\ metrics[i].decisionsByTaskType[t] = recorded[i].decisions[t]

\* C23: on every metrics instance, whatever record operations were made on
\* it since its construction or its last reset(), totalDecisions is the
\* number of recordDecision calls and decisionsByTaskType[t] the number of
\* them of type t (no key for a type never recorded), so the other record
\* operations change neither; with no record call since construction or
\* reset(), every counter is 0 and every map is empty.
C23_DecisionCountersCountRecordDecision ==
  \A i \in MetricsIds :
    metrics[i].constructed =>
      /\ metrics[i].totalDecisions = DecisionsRecorded(i)
      /\ \A t \in MetricTaskTypes : CountsDecisionsOfType(i, t)
      /\ DOMAIN metrics[i].decisionsByTaskType \subseteq MetricTaskTypes
      /\ recorded[i] = NoRecords => metrics[i] = NewMetrics

\* Decisions of both types and two other record operations were made on
\* one instance.
C23_Witness ==
  \E i \in MetricsIds :
    /\ metrics[i].constructed
    /\ recorded[i].decisions["coding"] = 1
    /\ recorded[i].decisions["reasoning"] = 1
    /\ recorded[i].others = 2
    /\ metrics[i].fallbacksUsed = 1
    /\ metrics[i].totalDecisions = 2

\* C24: a getGlobalRoutingMetrics call answers the instance that the
\* accessor handed out before, if it handed one out since the last
\* resetGlobalRoutingMetrics (or since the start), with the counters
\* accumulated on it; otherwise, the first call after a reset included, it
\* answers an instance whose counters are all zero and whose maps are empty.
C24_GlobalMetricsSameInstanceUntilReset ==
  Returned("getGlobalRoutingMetrics") =>
    IF issued # 0
    THEN /\ result.instance = issued
         /\ result.snapshot = metrics[issued]
         /\ result.snapshot.totalDecisions = DecisionsRecorded(issued)
    ELSE result.snapshot = NewMetrics

\* A later call answers the instance handed out before, on which two
\* decisions were recorded in between.
C24_Witness ==
  /\ Returned("getGlobalRoutingMetrics")
  /\ issued # 0
  /\ result.instance = issued
  /\ result.snapshot.totalDecisions = 2

(***************************************************************************)
(* Further claims about the model catalog cache.                           *)
(***************************************************************************)
DiscoveriesInFlight == {p \in 1..MaxCalls : Pending(p)}

\* C25: at no time are two catalog discoveries in flight: a loadModelCatalog
\* call issued while a load is pending, whatever its options, starts no
\* second discovery.
C25_AtMostOneDiscoveryInFlight == Cardinality(DiscoveriesInFlight) <= 1

(***************************************************************************)
(* Further claims about the task router.                                   *)
(***************************************************************************)
\* No entry of the ranking has a total above the first entry's by more than
\* 0.001.
FirstIsBestWithinEpsilon(scores) ==
  \A i \in 1..Len(scores) : scores[i].totalScore - scores[1].totalScore <= scores[1].den \div 1000

\* C26: in every non-override routing result the primary is the first entry
\* of decision.allRankedScores, and no entry of allRankedScores has a total
\* above the primary's by more than 0.001, with or without a boost.
C26_PrimaryIsTopOfRanking ==
  RoutedResult =>
    /\ result.primary.provider = result.decision.allRankedScores[1].provider
    /\ result.primary.model = result.decision.allRankedScores[1].model
    /\ result.decision.selectedScore = result.decision.allRankedScores[1]
    /\ FirstIsBestWithinEpsilon(result.decision.allRankedScores)

\* The places of the ranking whose identity differs from the primary's.
OtherThanPrimary ==
  {i \in 1..Len(result.decision.allRankedScores) :
     RefKey(result.decision.allRankedScores[i]) # RefKey(result.primary)}

\* The k-th of these places, in rank order.
NthOther(k) ==
  CHOOSE i \in OtherThanPrimary : Cardinality({j \in OtherThanPrimary : j < i}) = k - 1

\* C27: the fallback list of a routing result is, in order, the first entries
\* of decision.allRankedScores (the final ranking) whose identity differs
\* from the primary's, up to the maximum of 3; it is absent, not empty, when
\* the ranking has no such entry.
C27_FallbacksAreFirstOthersInRankOrder ==
  RoutedResult =>
    /\ Len(result.fallbacks)
         = (IF Cardinality(OtherThanPrimary) < DefaultMaxFallbacks
            THEN Cardinality(OtherThanPrimary) ELSE DefaultMaxFallbacks)
    /\ \A k \in 1..Len(result.fallbacks) :
         /\ result.fallbacks[k].provider = result.decision.allRankedScores[NthOther(k)].provider
         /\ result.fallbacks[k].model = result.decision.allRankedScores[NthOther(k)].model
    /\ result.hasFallbacks <=> OtherThanPrimary # {}

\* The ranking was boosted and re-sorted, its second entry has the primary's
\* identity and is skipped, and more entries follow than the maximum.
C27_Witness ==
  /\ RoutedResult
  /\ ~NoScoreChanged
  /\ 2 \notin OtherThanPrimary
  /\ Cardinality(OtherThanPrimary) > DefaultMaxFallbacks
  /\ Len(result.fallbacks) = DefaultMaxFallbacks
  /\ result.hasFallbacks

(***************************************************************************)
(* Claims about the capability profiles.                                   *)
(***************************************************************************)
\* The context window the claim gives an inferred profile: the declared
\* positive value, else the size in the name times 1000, else the caller's
\* default, else 8192.
ClaimedContextWindow(model, defaults) ==
  IF model.contextWindow > 0 THEN model.contextWindow
  ELSE IF MODEL_CONTEXT_PATTERNS(model.id) > 0 THEN 1000 * MODEL_CONTEXT_PATTERNS(model.id)
  ELSE IF "defaultContextWindow" \in defaults.given THEN defaults.defaultContextWindow
  ELSE DEFAULT_CONTEXT_WINDOW

\* C28: every capability profile has contextWindow > 0: the explicit profile
\* of an entry is returned unchanged, an inferred profile takes its context
\* window from the declared positive value, else from the size in the name
\* times 1000, else from the caller's default, else 8192, and the value
\* chosen is positive.
C28_ContextWindowPositive ==
  Returned("inferModelCapabilities") =>
    /\ call.model.capabilities.declared => result.capabilities = call.model.capabilities
    /\ ~call.model.capabilities.declared =>
         result.capabilities.contextWindow = ClaimedContextWindow(call.model, call.defaults)
    /\ result.capabilities.contextWindow > 0

(***************************************************************************)
(* Claims about what the router leaves alone and what its rules filter.    *)
(***************************************************************************)
SelectStep == pc = "idle" /\ pc' = "returned" /\ call'.op = "selectModelForTask"

SupportsVision(entry) == getModelCapabilities(entry).supportsVision

\* The catalog entries that the allow-list of the call admits: all of them
\* when there is no allow-list.
AllowedEntries ==
  {i \in 1..Len(router.catalog) :
     \/ Len(call.options.allowedProviders) = 0
     \/ toLowerCase(router.catalog[i].provider) \in LowerSet(call.options.allowedProviders)}

\* The catalog entries that appear in the ranking of the result.
RankedEntries ==
  {i \in 1..Len(router.catalog) :
     \E j \in 1..Len(result.decision.allRankedScores) :
       /\ result.decision.allRankedScores[j].provider = router.catalog[i].provider
       /\ result.decision.allRankedScores[j].model = router.catalog[i].id}

\* The matching rules left no entry of the catalog that the allow-list had
\* left (the whole catalog when the allow-list left none).
RuleResultEmpty ==
  LET allowed == SelectSeq2(router.catalog, {router.catalog[i] : i \in AllowedEntries})
  IN applyTaskRules(router.config, IF Len(allowed) = 0 THEN router.catalog ELSE allowed,
                    result.decision.taskClassification).models = <<>>

\* What the last matching rule asks of reasoning: its requireReasoning when
\* it has one, else the task's requiresReasoning.
LastRuleDemandsReasoning ==
  LET last == CHOOSE k \in MatchingRuleIndexes : \A other \in MatchingRuleIndexes : other <= k
  IN OrElse(router.config.taskRules[last].requireReasoning,
            result.decision.taskClassification.requiresReasoning)

\* C30: the task's vision and reasoning requirements filter the catalog only
\* when a task rule matches the classification.  With no matching rule every
\* catalog entry that the allow-list admits is ranked; with a matching rule,
\* unless the rules left no entry and the full catalog was restored, every
\* ranked entry supports vision if the task requires vision and supports
\* reasoning if the last matching rule's effective requirement demands it.
C30_RequirementsFilterOnlyUnderMatchingRule ==
  RoutedResult =>
    IF MatchingRuleIndexes = {}
    THEN AllowedEntries \subseteq RankedEntries
    ELSE \/ RuleResultEmpty
         \/ \A i \in RankedEntries :
              /\ result.decision.taskClassification.requiresVision
                   => SupportsVision(router.catalog[i])
              /\ LastRuleDemandsReasoning => SupportsReasoning(router.catalog[i])

\* A task that requires vision met a matching rule; the catalog has entries
\* without vision, some entry passed the rules, and the ranking has none of
\* the entries without vision.
C30_Witness ==
  /\ RoutedResult
  /\ MatchingRuleIndexes # {}
  /\ result.decision.taskClassification.requiresVision
  /\ ~RuleResultEmpty
  /\ \E i \in 1..Len(router.catalog) : ~SupportsVision(router.catalog[i])
  /\ \A i \in RankedEntries : SupportsVision(router.catalog[i])

====
